---- MODULE Spec2Model ----
(***************************************************************************)
(* batmon: the battery analysis engine (calculations.go and the analysis   *)
(* functions computeAvgRate .. analyzeBatteryHealth) as a state machine.   *)
(*                                                                         *)
(* A caller holds a measurement history `ms` (oldest first), a wall clock  *)
(* `now`, and calls the analysis functions on the history; `out` holds the *)
(* latest call and its result and `prev` the call before it, both on the   *)
(* current history (<<>> when there is none).                              *)
(*                                                                         *)
(* Around the engine: the MemoryBuffer of collectors.go (`buffer`, with     *)
(* the history `added` of what was added to it), the collection goroutines *)
(* in flight (`flight`), the collection loop and its ticker (`ticker`),    *)
(* the cancelled context (`ctxDone`), and the TUI (`app`, with the keys    *)
(* pressed so far, `keys`).  The specifications of the engine leave them   *)
(* as they are at construction.                                            *)
(*                                                                         *)
(* Conventions                                                             *)
(*  - time is counted in whole seconds (time.RFC3339 as the collector      *)
(*    writes it has no fractional part);                                   *)
(*  - a Timestamp string is modelled by what time.Parse makes of it and by *)
(*    its length: [ok, t, len];                                            *)
(*  - float64 values are exact rationals <<n, d>>, d > 0, in lowest terms; *)
(*    a division by zero gives <<1, 0>>, <<-1, 0>> (+Inf, -Inf) or <<0, 0>> *)
(*    (NaN);                                                                *)
(*  - Go's 0-based slice index i is element i + 1 of the sequence: At.     *)
(***************************************************************************)
EXTENDS Integers, Sequences, FiniteSets, TLC

VARIABLES ms, now, out, prev, buffer, added, flight, ticker, ctxDone, app, keys

vars == <<ms, now, out, prev, buffer, added, flight, ticker, ctxDone, app, keys>>

runtime == <<buffer, added, flight, ticker, ctxDone, app, keys>>

-----------------------------------------------------------------------------
(* Time units, in seconds.                                                 *)
Minute == 60
Hour == 60 * Minute
Day == 24 * Hour

-----------------------------------------------------------------------------
(* Exact rationals standing for float64.                                   *)
(* calculations.go: abs                                                     *)
abs(x) == IF x < 0 THEN -x ELSE x

RECURSIVE Gcd(_, _)
Gcd(a, b) == IF b = 0 THEN a ELSE Gcd(b, a % b)

Sign(n) == IF n > 0 THEN 1 ELSE IF n < 0 THEN -1 ELSE 0

Rat(n, d) ==
    LET g == Gcd(abs(n), abs(d))
        s == IF d < 0 THEN -1 ELSE 1
    IN  IF d = 0 THEN <<Sign(n), 0>>
        ELSE IF n = 0 THEN <<0, 1>> ELSE <<(s * n) \div g, (s * d) \div g>>

Finite(a) == a[2] > 0

Zero == <<0, 1>>

RLess(a, b) == a[1] * b[2] < b[1] * a[2]

RNeg(a) == <<-a[1], a[2]>>

RMul(a, b) ==
    LET g1 == Gcd(abs(a[1]), b[2])
        g2 == Gcd(abs(b[1]), a[2])
    IN  IF a[1] = 0 \/ b[1] = 0 THEN Zero
        ELSE <<(a[1] \div g1) * (b[1] \div g2), (a[2] \div g2) * (b[2] \div g1)>>

RDiv(a, b) ==
    IF b[1] = 0 THEN <<Sign(a[1]), 0>>
    ELSE RMul(a, IF b[1] < 0 THEN <<-b[2], -b[1]>> ELSE <<b[2], b[1]>>)

RSub(a, b) == Rat(a[1] * b[2] - b[1] * a[2], a[2] * b[2])

(* int(x) of Go: truncation toward zero.                                   *)
Trunc(a) == IF a[1] >= 0 THEN a[1] \div a[2] ELSE -((-a[1]) \div a[2])

-----------------------------------------------------------------------------
(* Measurement (types.go) and its Timestamp.                               *)
RFC3339Len == 20

GoodTime(t) == [ok |-> TRUE, t |-> t, len |-> RFC3339Len]

BadTime(len) == [ok |-> FALSE, t |-> 0, len |-> len]

Measurement(ts, pct, state, cycles, full, design, current, temp) ==
    [Timestamp |-> ts, Percentage |-> pct, State |-> state, CycleCount |-> cycles,
     FullChargeCap |-> full, DesignCapacity |-> design, CurrentCapacity |-> current,
     Temperature |-> temp]

At(s, i) == s[i + 1]

(* err == nil of time.Parse(time.RFC3339, m.Timestamp), and the parsed time *)
ParseOk(m) == m.Timestamp.ok

ParseTime(m) == m.Timestamp.t

-----------------------------------------------------------------------------
(* calculations.go: computeAvgRate                                          *)
(* mutant: the walk starts at the first sample whatever the window          *)
WindowStart_FromZero(s, intervals) == 0

(* mutant: the window holds `intervals` samples, one pair too few           *)
WindowStart_OneShort(s, intervals) ==
    IF Len(s) - intervals < 0 THEN 0 ELSE Len(s) - intervals

WindowStart(s, intervals) ==
    IF Len(s) - intervals - 1 < 0 THEN 0 ELSE Len(s) - intervals - 1

RECURSIVE AvgRateLoop(_, _, _)
AvgRateLoop(s, i, acc) ==
    IF i >= Len(s) - 1 THEN acc
    ELSE LET diff == At(s, i).CurrentCapacity - At(s, i + 1).CurrentCapacity
             timeS == ParseTime(At(s, i + 1)) - ParseTime(At(s, i))
         IN  IF diff <= 0 THEN AvgRateLoop(s, i + 1, acc)
             ELSE IF ~ParseOk(At(s, i)) \/ ~ParseOk(At(s, i + 1))
                  THEN AvgRateLoop(s, i + 1, acc)
             ELSE AvgRateLoop(s, i + 1,
                      [totalDiff |-> acc.totalDiff + diff,
                       totalTime |-> acc.totalTime + timeS,
                       validIntervals |-> acc.validIntervals])

NoSums == [totalDiff |-> 0, totalTime |-> 0, validIntervals |-> 0]

(* mutant: the elapsed time is not converted to hours                       *)
RateOf_PerSecond(sums) ==
    IF sums.totalTime = 0 THEN Zero ELSE Rat(sums.totalDiff, sums.totalTime)

(* mAh per hour: totalDiff / (totalTime seconds / 3600)                     *)
RateOf(sums) ==
    IF sums.totalTime = 0 THEN Zero ELSE Rat(sums.totalDiff * Hour, sums.totalTime)

computeAvgRate(s, intervals) ==
    IF Len(s) < 2 THEN Zero
    ELSE RateOf(AvgRateLoop(s, WindowStart(s, intervals), NoSums))

-----------------------------------------------------------------------------
(* calculations.go: computeAvgRateRobust                                    *)
MaxChargeJump == 20
MaxCapacityJump == 500
MaxIntervalHours == 2

(* mutant: the charge jump is not checked                                   *)
RobustReject_CapacityOnly(prev_, curr) ==
    abs(curr.CurrentCapacity - prev_.CurrentCapacity) > MaxCapacityJump

(* mutant: a jump of exactly the limit is rejected too                      *)
RobustReject_Inclusive(prev_, curr) ==
    \/ abs(curr.Percentage - prev_.Percentage) >= MaxChargeJump
    \/ abs(curr.CurrentCapacity - prev_.CurrentCapacity) >= MaxCapacityJump

RobustReject(prev_, curr) ==
    \/ abs(curr.Percentage - prev_.Percentage) > MaxChargeJump
    \/ abs(curr.CurrentCapacity - prev_.CurrentCapacity) > MaxCapacityJump

RECURSIVE RobustLoop(_, _, _)
RobustLoop(s, i, acc) ==
    IF i >= Len(s) - 1 THEN acc
    ELSE LET prev_ == At(s, i)
             curr == At(s, i + 1)
             diff == prev_.CurrentCapacity - curr.CurrentCapacity
             timeS == ParseTime(curr) - ParseTime(prev_)
         IN  IF RobustReject(prev_, curr) THEN RobustLoop(s, i + 1, acc)
             ELSE IF diff <= 0 THEN RobustLoop(s, i + 1, acc)
             ELSE IF ~ParseOk(prev_) \/ ~ParseOk(curr) THEN RobustLoop(s, i + 1, acc)
             ELSE IF timeS <= 0 \/ timeS > MaxIntervalHours * Hour
                  THEN RobustLoop(s, i + 1, acc)
             ELSE RobustLoop(s, i + 1,
                      [totalDiff |-> acc.totalDiff + diff,
                       totalTime |-> acc.totalTime + timeS,
                       validIntervals |-> acc.validIntervals + 1])

computeAvgRateRobust(s, intervals) ==
    IF Len(s) < 2 THEN [rate |-> Zero, validIntervals |-> 0]
    ELSE LET sums == RobustLoop(s, WindowStart(s, intervals), NoSums)
         IN  [rate |-> RateOf(sums), validIntervals |-> sums.validIntervals]

-----------------------------------------------------------------------------
(* calculations.go: computeRemainingTime (the Duration in whole seconds)    *)
(* and computeWear (a percentage)                                           *)
(* mutant: a zero design capacity is not guarded                            *)
computeWear_Unguarded(designCap, fullCap) ==
    Rat((designCap - fullCap) * 100, designCap)

computeRemainingTime(currentCap, avgRate) ==
    IF avgRate[1] <= 0 THEN 0
    ELSE Trunc(RMul(RDiv(Rat(currentCap, 1), avgRate), Rat(Hour, 1)))

computeWear(designCap, fullCap) ==
    IF designCap = 0 THEN Zero ELSE Rat((designCap - fullCap) * 100, designCap)

-----------------------------------------------------------------------------
(* calculations.go: normalizeAnomalyThresholds, interval in seconds.        *)
(* minutes = max(interval / 60, 0.5); int(20 * minutes * 2) and             *)
(* int(500 * minutes), both capped.                                         *)
BaseChargeThreshold == 20
BaseCapacityThreshold == 500
MinIntervalSeconds == 30
ChargeThresholdCap == 50
CapacityThresholdCap == 2000

(* mutant: no minimum of 30 seconds                                         *)
ClampedSeconds_Unclamped(interval) == interval

ClampedSeconds(interval) ==
    IF interval < MinIntervalSeconds THEN MinIntervalSeconds ELSE interval

(* mutant: the charge threshold is not doubled                              *)
normalizeAnomalyThresholds_NoDouble(interval) ==
    LET minutes == Rat(ClampedSeconds(interval), Minute)
        charge == Trunc(RMul(Rat(BaseChargeThreshold, 1), minutes))
        capacity == Trunc(RMul(Rat(BaseCapacityThreshold, 1), minutes))
    IN  [charge |-> IF charge > ChargeThresholdCap THEN ChargeThresholdCap ELSE charge,
         capacity |-> IF capacity > CapacityThresholdCap THEN CapacityThresholdCap
                      ELSE capacity]

normalizeAnomalyThresholds(interval) ==
    LET minutes == Rat(ClampedSeconds(interval), Minute)
        charge == Trunc(RMul(RMul(Rat(BaseChargeThreshold, 1), minutes), Rat(2, 1)))
        capacity == Trunc(RMul(Rat(BaseCapacityThreshold, 1), minutes))
    IN  [charge |-> IF charge > ChargeThresholdCap THEN ChargeThresholdCap ELSE charge,
         capacity |-> IF capacity > CapacityThresholdCap THEN CapacityThresholdCap
                      ELSE capacity]

-----------------------------------------------------------------------------
(* detectBatteryAnomalies.  Every anomaly string is formatted with          *)
(* curr.Timestamp[11:19], which panics when the string is shorter than 19.  *)
DefaultIntervalSeconds == 30
StampEnd == 19

PairInterval(prev_, curr) ==
    IF ParseOk(prev_) /\ ParseOk(curr) THEN ParseTime(curr) - ParseTime(prev_)
    ELSE DefaultIntervalSeconds

Anomaly(kind, i, from, to, interval) ==
    [kind |-> kind, pair |-> i, from |-> from, to |-> to, interval |-> interval]

(* mutant: the capacity change is compared with its sign                    *)
PairAnomalies_SignedCapacity(s, i) ==
    LET prev_ == At(s, i)
        curr == At(s, i + 1)
        interval == PairInterval(prev_, curr)
        th == normalizeAnomalyThresholds(interval)
        chargeDiff == curr.Percentage - prev_.Percentage
        capacityDiff == curr.CurrentCapacity - prev_.CurrentCapacity
    IN  (IF chargeDiff > th.charge
         THEN <<Anomaly("rise", i, prev_.Percentage, curr.Percentage, interval)>>
         ELSE <<>>)
        \o (IF chargeDiff < -th.charge
            THEN <<Anomaly("drop", i, prev_.Percentage, curr.Percentage, interval)>>
            ELSE <<>>)
        \o (IF prev_.State # curr.State
            THEN <<Anomaly("state", i, prev_.State, curr.State, interval)>>
            ELSE <<>>)
        \o (IF capacityDiff > th.capacity
            THEN <<Anomaly("capacity", i, prev_.CurrentCapacity, curr.CurrentCapacity,
                           interval)>>
            ELSE <<>>)

PairAnomalies(s, i) ==
    LET prev_ == At(s, i)
        curr == At(s, i + 1)
        interval == PairInterval(prev_, curr)
        th == normalizeAnomalyThresholds(interval)
        chargeDiff == curr.Percentage - prev_.Percentage
        capacityDiff == abs(curr.CurrentCapacity - prev_.CurrentCapacity)
    IN  (IF chargeDiff > th.charge
         THEN <<Anomaly("rise", i, prev_.Percentage, curr.Percentage, interval)>>
         ELSE <<>>)
        \o (IF chargeDiff < -th.charge
            THEN <<Anomaly("drop", i, prev_.Percentage, curr.Percentage, interval)>>
            ELSE <<>>)
        \o (IF prev_.State # curr.State
            THEN <<Anomaly("state", i, prev_.State, curr.State, interval)>>
            ELSE <<>>)
        \o (IF capacityDiff > th.capacity
            THEN <<Anomaly("capacity", i, prev_.CurrentCapacity, curr.CurrentCapacity,
                           interval)>>
            ELSE <<>>)

RECURSIVE AnomalyLoop(_, _, _)
AnomalyLoop(s, i, anomalies) ==
    IF i >= Len(s) - 1 THEN [panic |-> FALSE, anomalies |-> anomalies]
    ELSE LET found == PairAnomalies(s, i)
         IN  IF found # <<>> /\ At(s, i + 1).Timestamp.len < StampEnd
             THEN [panic |-> TRUE, anomalies |-> <<>>]
             ELSE AnomalyLoop(s, i + 1, anomalies \o found)

detectBatteryAnomalies(s) ==
    IF Len(s) < 2 THEN [panic |-> FALSE, anomalies |-> <<>>]
    ELSE AnomalyLoop(s, 0, <<>>)

-----------------------------------------------------------------------------
(* analyzeCapacityTrend, reading the wall clock `clock` (time.Now()).       *)
MinTrendSamples == 10
TrendWindowDays == 30
MinValidSamples == 5
MinTrendDays == 7
TargetHealthPercent == 80

HealthyDefault == [DegradationRate |-> Zero, ProjectedLifetime |-> 0, IsHealthy |-> TRUE]

(* mutant: samples of any age are used                                      *)
TrendValid_NoWindow(m, clock) ==
    /\ ParseOk(m)
    /\ m.FullChargeCap > 0
    /\ m.DesignCapacity > 0

TrendValid(m, clock) ==
    /\ ParseOk(m)
    /\ ParseTime(m) > clock - TrendWindowDays * Day
    /\ m.FullChargeCap > 0
    /\ m.DesignCapacity > 0

ValidMeasurements(s, clock) == SelectSeq(s, LAMBDA m : TrendValid(m, clock))

(* mutant: a rate of exactly -0.5 counts as healthy                         *)
TrendOf_InclusiveHealthy(first, last) ==
    LET daysDiff == Rat(ParseTime(last) - ParseTime(first), Day)
        capacityDiff == Rat(last.FullChargeCap - first.FullChargeCap, 1)
        dailyDegradation == RDiv(capacityDiff, daysDiff)
        monthlyDegradation == RMul(dailyDegradation, Rat(30, 1))
        monthlyDegradationPercent ==
            RMul(RDiv(monthlyDegradation, Rat(last.DesignCapacity, 1)), Rat(100, 1))
        currentHealthPercent == Rat(last.FullChargeCap * 100, last.DesignCapacity)
        target == Rat(TargetHealthPercent, 1)
        projectedDays ==
            IF monthlyDegradationPercent[1] < 0 /\ RLess(target, currentHealthPercent)
            THEN Trunc(RMul(RDiv(RSub(currentHealthPercent, target),
                                 RNeg(monthlyDegradationPercent)),
                            Rat(30, 1)))
            ELSE 0
    IN  [DegradationRate |-> monthlyDegradationPercent,
         ProjectedLifetime |-> projectedDays,
         IsHealthy |-> ~RLess(monthlyDegradationPercent, Rat(-1, 2))]

(* mutant: the projection does not ask for a health above the target       *)
TrendOf_NoHealthFloor(first, last) ==
    LET daysDiff == Rat(ParseTime(last) - ParseTime(first), Day)
        capacityDiff == Rat(last.FullChargeCap - first.FullChargeCap, 1)
        dailyDegradation == RDiv(capacityDiff, daysDiff)
        monthlyDegradation == RMul(dailyDegradation, Rat(30, 1))
        monthlyDegradationPercent ==
            RMul(RDiv(monthlyDegradation, Rat(last.DesignCapacity, 1)), Rat(100, 1))
        currentHealthPercent == Rat(last.FullChargeCap * 100, last.DesignCapacity)
        target == Rat(TargetHealthPercent, 1)
        projectedDays ==
            IF monthlyDegradationPercent[1] < 0
            THEN Trunc(RMul(RDiv(RSub(currentHealthPercent, target),
                                 RNeg(monthlyDegradationPercent)),
                            Rat(30, 1)))
            ELSE 0
    IN  [DegradationRate |-> monthlyDegradationPercent,
         ProjectedLifetime |-> projectedDays,
         IsHealthy |-> RLess(Rat(-1, 2), monthlyDegradationPercent)]

TrendOf(first, last) ==
    LET daysDiff == Rat(ParseTime(last) - ParseTime(first), Day)
        capacityDiff == Rat(last.FullChargeCap - first.FullChargeCap, 1)
        dailyDegradation == RDiv(capacityDiff, daysDiff)
        monthlyDegradation == RMul(dailyDegradation, Rat(30, 1))
        monthlyDegradationPercent ==
            RMul(RDiv(monthlyDegradation, Rat(last.DesignCapacity, 1)), Rat(100, 1))
        currentHealthPercent == Rat(last.FullChargeCap * 100, last.DesignCapacity)
        target == Rat(TargetHealthPercent, 1)
        projectedDays ==
            IF monthlyDegradationPercent[1] < 0 /\ RLess(target, currentHealthPercent)
            THEN Trunc(RMul(RDiv(RSub(currentHealthPercent, target),
                                 RNeg(monthlyDegradationPercent)),
                            Rat(30, 1)))
            ELSE 0
    IN  [DegradationRate |-> monthlyDegradationPercent,
         ProjectedLifetime |-> projectedDays,
         IsHealthy |-> RLess(Rat(-1, 2), monthlyDegradationPercent)]

(* mutant: the span of the samples is not checked                           *)
analyzeCapacityTrend_NoSpanCheck(s, clock) ==
    IF Len(s) < MinTrendSamples THEN HealthyDefault
    ELSE LET valid == ValidMeasurements(s, clock)
         IN  IF Len(valid) < MinValidSamples THEN HealthyDefault
             ELSE IF ParseTime(valid[Len(valid)]) = ParseTime(valid[1]) THEN HealthyDefault
             ELSE TrendOf(valid[1], valid[Len(valid)])

analyzeCapacityTrend(s, clock) ==
    IF Len(s) < MinTrendSamples THEN HealthyDefault
    ELSE LET valid == ValidMeasurements(s, clock)
         IN  IF Len(valid) < MinValidSamples THEN HealthyDefault
             ELSE IF ParseTime(valid[Len(valid)]) - ParseTime(valid[1]) < MinTrendDays * Day
                  THEN HealthyDefault
             ELSE TrendOf(valid[1], valid[Len(valid)])

-----------------------------------------------------------------------------
(* detectChargeCycles.  currentCycle is <<>> for nil, <<cycle>> otherwise.  *)
MinCycleSamples == 3

ToLower(state) ==
    CASE state = "Charging" -> "charging"
      [] state = "Discharging" -> "discharging"
      [] state = "Charged" -> "charged"
      [] OTHER -> state

ChargeCycle(start, startPct, type) ==
    [StartTime |-> start, EndTime |-> 0, StartPercent |-> startPct, EndPercent |-> 0,
     CycleType |-> type, CapacityLoss |-> 0]

(* mutant: the capacity loss is taken even from a capacity of 0             *)
CloseCycle_AnyCapacity(cycle, timestamp, prev_, m) ==
    [cycle EXCEPT !.EndTime = timestamp, !.EndPercent = m.Percentage,
                  !.CapacityLoss = prev_.CurrentCapacity - m.CurrentCapacity]

(* mutant: closing keeps the end left by the sample before the transition   *)
CloseCycle_KeepEnd(cycle, timestamp, prev_, m) ==
    [cycle EXCEPT !.CapacityLoss = IF prev_.CurrentCapacity > 0 /\ m.CurrentCapacity > 0
                                   THEN prev_.CurrentCapacity - m.CurrentCapacity
                                   ELSE @]

CloseCycle(cycle, timestamp, prev_, m) ==
    [cycle EXCEPT !.EndTime = timestamp, !.EndPercent = m.Percentage,
                  !.CapacityLoss = IF prev_.CurrentCapacity > 0 /\ m.CurrentCapacity > 0
                                   THEN prev_.CurrentCapacity - m.CurrentCapacity
                                   ELSE @]

UpdateCycle(currentCycle, timestamp, m) ==
    IF currentCycle = <<>> THEN <<>>
    ELSE <<[currentCycle[1] EXCEPT !.EndTime = timestamp, !.EndPercent = m.Percentage]>>

RECURSIVE CycleLoop(_, _, _, _)
CycleLoop(s, i, cycles, currentCycle) ==
    IF i >= Len(s)
    THEN IF currentCycle # <<>> THEN cycles \o currentCycle ELSE cycles
    ELSE LET m == At(s, i)
             timestamp == ParseTime(m)
         IN  IF ~ParseOk(m) THEN CycleLoop(s, i + 1, cycles, currentCycle)
             ELSE IF i = 0 THEN CycleLoop(s, i + 1, cycles, currentCycle)
             ELSE LET prev_ == At(s, i - 1)
                  IN  IF prev_.State # m.State
                      THEN CycleLoop(s, i + 1,
                               IF currentCycle # <<>>
                               THEN Append(cycles,
                                           CloseCycle(currentCycle[1], timestamp, prev_, m))
                               ELSE cycles,
                               UpdateCycle(<<ChargeCycle(timestamp, m.Percentage,
                                                         ToLower(m.State))>>,
                                           timestamp, m))
                      ELSE CycleLoop(s, i + 1, cycles,
                                     UpdateCycle(currentCycle, timestamp, m))

(* mutant: a segment is open from the first sample on                       *)
detectChargeCycles_FromFirst(s) ==
    IF Len(s) < MinCycleSamples THEN <<>>
    ELSE CycleLoop(s, 1, <<>>,
                   IF ParseOk(At(s, 0))
                   THEN UpdateCycle(<<ChargeCycle(ParseTime(At(s, 0)), At(s, 0).Percentage,
                                                  ToLower(At(s, 0).State))>>,
                                    ParseTime(At(s, 0)), At(s, 0))
                   ELSE <<>>)

(* mutant: two samples are enough                                           *)
detectChargeCycles_MinTwo(s) ==
    IF Len(s) < 2 THEN <<>> ELSE CycleLoop(s, 0, <<>>, <<>>)

detectChargeCycles(s) ==
    IF Len(s) < MinCycleSamples THEN <<>> ELSE CycleLoop(s, 0, <<>>, <<>>)

-----------------------------------------------------------------------------
(* analyzeBatteryHealth.  The status is the base label followed by its      *)
(* suffixes; labels and recommendations are named in English:               *)
(*   "Excellent" .. "Poor" for the five labels of the switch,               *)
(*   "(unstable)" and "(fast degradation)" for the two suffixes,            *)
(*   one word per recommendation string.                                    *)
HealthWindow == 10

(* mutant: the limits of the table are inclusive                            *)
BaseHealth_Inclusive(wear, cycleCount) ==
    CASE ~RLess(Rat(5, 1), wear) /\ cycleCount <= 300
            -> [status |-> "Excellent", score |-> 95]
      [] ~RLess(Rat(10, 1), wear) /\ cycleCount <= 500 -> [status |-> "Good", score |-> 85]
      [] ~RLess(Rat(20, 1), wear) /\ cycleCount <= 800 -> [status |-> "Fair", score |-> 70]
      [] ~RLess(Rat(30, 1), wear) /\ cycleCount <= 1200
            -> [status |-> "Needs attention", score |-> 50]
      [] OTHER -> [status |-> "Poor", score |-> 30]

BaseHealth(wear, cycleCount) ==
    CASE RLess(wear, Rat(5, 1)) /\ cycleCount < 300 -> [status |-> "Excellent", score |-> 95]
      [] RLess(wear, Rat(10, 1)) /\ cycleCount < 500 -> [status |-> "Good", score |-> 85]
      [] RLess(wear, Rat(20, 1)) /\ cycleCount < 800 -> [status |-> "Fair", score |-> 70]
      [] RLess(wear, Rat(30, 1)) /\ cycleCount < 1200
            -> [status |-> "Needs attention", score |-> 50]
      [] OTHER -> [status |-> "Poor", score |-> 30]

(* mutant: five anomalies are enough                                        *)
Unstable_Inclusive(anomalies) == Len(anomalies) >= 5

Unstable(anomalies) == Len(anomalies) > 5

FastDegradation(trend) ==
    ~trend.IsHealthy /\ RLess(trend.DegradationRate, Rat(-1, 1))

If(cond, text) == IF cond THEN <<text>> ELSE <<>>

(* mutant: the two temperature messages are checked independently          *)
Recommendations_BothTemperatures(latest, wear, anomalies, avgRate, trend) ==
    If(RLess(Rat(20, 1), wear), "replace")
    \o If(Len(anomalies) > 3, "power settings")
    \o If(latest.CycleCount > 1000, "end of life")
    \o If(RLess(Rat(1000, 1), avgRate), "high consumption")
    \o If(latest.Temperature > 40, "high temperature")
    \o If(latest.Temperature > 35, "raised temperature")
    \o If(~trend.IsHealthy /\ RLess(trend.DegradationRate, Rat(-1, 2)), "degradation")
    \o If(latest.State = "charging" /\ latest.Percentage = 100, "full charge")
    \o If(RLess(Rat(15, 1), wear) /\ latest.CycleCount > 500, "calibration")

Recommendations(latest, wear, anomalies, avgRate, trend) ==
    If(RLess(Rat(20, 1), wear), "replace")
    \o If(Len(anomalies) > 3, "power settings")
    \o If(latest.CycleCount > 1000, "end of life")
    \o If(RLess(Rat(1000, 1), avgRate), "high consumption")
    \o (IF latest.Temperature > 40 THEN <<"high temperature">>
        ELSE If(latest.Temperature > 35, "raised temperature"))
    \o If(~trend.IsHealthy /\ RLess(trend.DegradationRate, Rat(-1, 2)), "degradation")
    \o If(latest.State = "charging" /\ latest.Percentage = 100, "full charge")
    \o If(RLess(Rat(15, 1), wear) /\ latest.CycleCount > 500, "calibration")

analyzeBatteryHealth(s, clock) ==
    IF Len(s) = 0 THEN [nil |-> TRUE, panic |-> FALSE]
    ELSE LET latest == s[Len(s)]
             wear == computeWear(latest.DesignCapacity, latest.FullChargeCap)
             detected == detectBatteryAnomalies(s)
             anomalies == detected.anomalies
             robust == computeAvgRateRobust(s, HealthWindow)
             trendAnalysis == analyzeCapacityTrend(s, clock)
             chargeCycles == detectChargeCycles(s)
             base == BaseHealth(wear, latest.CycleCount)
         IN  IF detected.panic THEN [nil |-> FALSE, panic |-> TRUE]
             ELSE [nil |-> FALSE, panic |-> FALSE,
                   wear_percentage |-> wear,
                   cycle_count |-> latest.CycleCount,
                   anomalies |-> anomalies,
                   anomaly_count |-> Len(anomalies),
                   discharge_rate |-> robust.rate,
                   valid_intervals |-> robust.validIntervals,
                   trend_analysis |-> trendAnalysis,
                   charge_cycles |-> chargeCycles,
                   health_status |-> <<base.status>>
                       \o If(Unstable(anomalies), "(unstable)")
                       \o If(FastDegradation(trendAnalysis), "(fast degradation)"),
                   health_score |-> base.score
                       - (IF Unstable(anomalies) THEN 10 ELSE 0)
                       - (IF FastDegradation(trendAnalysis) THEN 15 ELSE 0),
                   recommendations |->
                       Recommendations(latest, wear, anomalies, robust.rate,
                                       trendAnalysis)]

-----------------------------------------------------------------------------
(* The caller.  A call records its function, its arguments, the time of the *)
(* call and the result.                                                     *)
(* part_002: analyzeAdvancedMetrics, the health rating and what it reads.   *)
(* A Measurement also carries Voltage (mV) and AppleCondition.  The power    *)
(* fields of the result do not enter the rating and are left out.           *)
AdvancedMeasurement(m, voltage, condition) ==
    m @@ [Voltage |-> voltage, AppleCondition |-> condition]

RECURSIVE SumOf(_)
SumOf(seq) == IF seq = <<>> THEN Zero ELSE RSub(SumOf(Tail(seq)), RNeg(seq[1]))

Voltages(s) ==
    LET positive == SelectSeq(s, LAMBDA m : m.Voltage > 0)
    IN  [i \in 1..Len(positive) |-> Rat(positive[i].Voltage, 1)]

(* int(95 - VoltageStability) when VoltageStability < 95, else 0, with      *)
(* VoltageStability = 100 * (1 - stdDev / mean), left at 0 with fewer than  *)
(* two voltages.  The square root is avoided by comparing squares:          *)
(* k <= 100 * stdDev / mean - 5 < k + 1 iff                                 *)
(* (k + 5)^2 <= 10^4 * variance / mean^2 < (k + 6)^2.                       *)
StabilityLoss(s) ==
    LET voltages == Voltages(s)
        n == Len(voltages)
    IN  IF n <= 1 THEN 95
        ELSE LET mean == RDiv(SumOf(voltages), Rat(n, 1))
                 variance ==
                     RDiv(SumOf([i \in 1..n |-> RMul(RSub(voltages[i], mean),
                                                     RSub(voltages[i], mean))]),
                          Rat(n, 1))
                 squared == RMul(Rat(10000, 1), RDiv(RDiv(variance, mean), mean))
             IN  IF ~RLess(Zero, mean) THEN 95
                 ELSE IF ~RLess(Rat(25, 1), squared) THEN 0
                 ELSE CHOOSE k \in 0..(100 * n) :
                          /\ ~RLess(squared, Rat((k + 5) * (k + 5), 1))
                          /\ RLess(squared, Rat((k + 6) * (k + 6), 1))

(* mutant: the rating is clamped to 100 as well                             *)
HealthRatingOf_Capped(healthScore) ==
    IF healthScore < 0 THEN 0 ELSE IF healthScore > 100 THEN 100 ELSE healthScore

(* int(math.Max(0, float64(healthScore)))                                   *)
HealthRatingOf(healthScore) == IF healthScore < 0 THEN 0 ELSE healthScore

AppleStatusOf(latest, rating) ==
    IF latest.AppleCondition # "" THEN latest.AppleCondition
    ELSE IF rating >= 85 THEN "Normal"
    ELSE IF rating >= 70 THEN "Service Recommended"
    ELSE "Replace Soon"

analyzeAdvancedMetrics(s) ==
    IF Len(s) = 0 THEN [HealthRating |-> 0, AppleStatus |-> ""]
    ELSE LET latest == s[Len(s)]
             wear == Rat((latest.DesignCapacity - latest.FullChargeCap) * 100,
                         latest.DesignCapacity)
             cycleImpact == Trunc(Rat(latest.CycleCount, 10))
             healthScore ==
                 100 - (IF latest.DesignCapacity > 0 THEN Trunc(RMul(wear, Rat(1, 2)))
                        ELSE 0)
                     - cycleImpact
                     - (IF latest.Temperature > 45 THEN latest.Temperature - 45 ELSE 0)
                     - StabilityLoss(s)
         IN  [HealthRating |-> HealthRatingOf(healthScore),
              AppleStatus |-> AppleStatusOf(latest, HealthRatingOf(healthScore))]

-----------------------------------------------------------------------------
(* collectors.go: MemoryBuffer.  nil is <<>>, a pointer to a copy is <<m>>. *)
DefaultBufferSize == 100

NewMemoryBuffer(maxSize) == [measurements |-> <<>>, maxSize |-> maxSize]

(* mutant: an overflow is trimmed to maxSize                                *)
Add_TrimToMax(mb, m) ==
    LET appended == Append(mb.measurements, m)
    IN  IF Len(appended) > mb.maxSize
        THEN [mb EXCEPT !.measurements =
                            SubSeq(appended, Len(appended) - mb.maxSize + 1, Len(appended))]
        ELSE [mb EXCEPT !.measurements = appended]

Add(mb, m) ==
    LET appended == Append(mb.measurements, m)
        keepFrom == Len(appended) - mb.maxSize + mb.maxSize \div 4
    IN  IF Len(appended) > mb.maxSize
        THEN [mb EXCEPT !.measurements = SubSeq(appended, keepFrom + 1, Len(appended))]
        ELSE [mb EXCEPT !.measurements = appended]

GetLast(mb, n) ==
    IF Len(mb.measurements) = 0 THEN <<>>
    ELSE IF n >= Len(mb.measurements) THEN mb.measurements
    ELSE SubSeq(mb.measurements, Len(mb.measurements) - n + 1, Len(mb.measurements))

GetLatest(mb) ==
    IF Len(mb.measurements) = 0 THEN <<>>
    ELSE <<mb.measurements[Len(mb.measurements)]>>

Size(mb) == Len(mb.measurements)

(* The service, the loop and the TUI before they are started.               *)
ServiceOff ==
    /\ buffer = NewMemoryBuffer(DefaultBufferSize)
    /\ added = <<>>
    /\ flight = {}
    /\ ticker = [pc |-> "off"]
    /\ ctxDone = FALSE
    /\ app = [state |-> "off"]
    /\ keys = <<>>

-----------------------------------------------------------------------------
Call(fn, args, val) == [fn |-> fn, args |-> args, at |-> now, val |-> val]

Record(fn, args, val) ==
    /\ out' = <<Call(fn, args, val)>>
    /\ prev' = out
    /\ UNCHANGED runtime

NoCalls ==
    /\ out = <<>>
    /\ prev = <<>>

(* A new sample changes the history: the recorded calls are dropped.        *)
Store(m, clock) ==
    /\ ms' = Append(ms, m)
    /\ now' = clock
    /\ out' = <<>>
    /\ prev' = <<>>
    /\ UNCHANGED runtime

Windows == {1, 10}

CallComputeAvgRate(w) ==
    /\ Record("computeAvgRate", <<w>>, computeAvgRate(ms, w))
    /\ UNCHANGED <<ms, now>>

CallComputeAvgRateRobust(w) ==
    /\ Record("computeAvgRateRobust", <<w>>, computeAvgRateRobust(ms, w))
    /\ UNCHANGED <<ms, now>>

CallComputeWear(designCap, fullCap) ==
    /\ Record("computeWear", <<designCap, fullCap>>, computeWear(designCap, fullCap))
    /\ UNCHANGED <<ms, now>>

CallComputeRemainingTime(currentCap, avgRate) ==
    /\ Record("computeRemainingTime", <<currentCap, avgRate>>,
              computeRemainingTime(currentCap, avgRate))
    /\ UNCHANGED <<ms, now>>

CallDetectBatteryAnomalies ==
    /\ Record("detectBatteryAnomalies", <<>>, detectBatteryAnomalies(ms))
    /\ UNCHANGED <<ms, now>>

CallNormalizeAnomalyThresholds(interval) ==
    /\ Record("normalizeAnomalyThresholds", <<interval>>,
              normalizeAnomalyThresholds(interval))
    /\ UNCHANGED <<ms, now>>

CallAnalyzeCapacityTrend ==
    /\ Record("analyzeCapacityTrend", <<>>, analyzeCapacityTrend(ms, now))
    /\ UNCHANGED <<ms, now>>

CallDetectChargeCycles ==
    /\ Record("detectChargeCycles", <<>>, detectChargeCycles(ms))
    /\ UNCHANGED <<ms, now>>

CallAnalyzeBatteryHealth ==
    /\ Record("analyzeBatteryHealth", <<>>, analyzeBatteryHealth(ms, now))
    /\ UNCHANGED <<ms, now>>

CallAnalyzeAdvancedMetrics ==
    /\ Record("analyzeAdvancedMetrics", <<>>, analyzeAdvancedMetrics(ms))
    /\ UNCHANGED <<ms, now>>

-----------------------------------------------------------------------------
(* SpecRate: histories for the rate estimators.  Each sample follows the    *)
(* one before it by a step of the clock, the charge and the capacity.       *)
MaxRateLen == 4

Step(dt, dpct, dcap, ok, state) ==
    [dt |-> dt, dpct |-> dpct, dcap |-> dcap, ok |-> ok, state |-> state]

RateSteps ==
    { Step(30 * Minute, -5, -100, TRUE, "discharging"),
      Step(Hour, -8, -300, TRUE, "discharging"),
      Step(30 * Minute, -25, -100, TRUE, "discharging"),
      Step(30 * Minute, -10, -600, TRUE, "discharging"),
      Step(3 * Hour, -5, -100, TRUE, "discharging"),
      Step(0, -1, -50, TRUE, "discharging"),
      Step(30 * Minute, 5, 100, TRUE, "charging"),
      Step(30 * Minute, -5, -100, FALSE, "discharging"),
      Step(2 * Hour, -20, -500, TRUE, "discharging"),
      Step(30 * Minute, 0, 0, TRUE, "discharging") }

FirstSample == Measurement(GoodTime(0), 90, "discharging", 100, 5000, 5200, 4500, 30)

Next_(m, step, badLen) ==
    Measurement(IF step.ok THEN GoodTime(now + step.dt) ELSE BadTime(badLen),
                m.Percentage + step.dpct, step.state, m.CycleCount,
                m.FullChargeCap, m.DesignCapacity, m.CurrentCapacity + step.dcap,
                m.Temperature)

InRange(m) == m.Percentage \in 0..100 /\ m.CurrentCapacity >= 0

RateGrow(max) ==
    /\ Len(ms) < max
    /\ IF ms = <<>> THEN Store(FirstSample, 0)
       ELSE \E step \in RateSteps :
                /\ InRange(Next_(ms[Len(ms)], step, 0))
                /\ Store(Next_(ms[Len(ms)], step, 0), now + step.dt)

RateSample == RateGrow(MaxRateLen)

InitEmpty ==
    /\ ms = <<>>
    /\ now = 0
    /\ NoCalls
    /\ ServiceOff

NextRate ==
    \/ RateSample
    \/ \E w \in Windows : CallComputeAvgRate(w)
    \/ \E w \in Windows : CallComputeAvgRateRobust(w)

SpecRate == InitEmpty /\ [][NextRate]_vars

-----------------------------------------------------------------------------
(* Spec: a caller whose history holds rows of any kind (calm ones, charge   *)
(* and capacity jumps, state changes, timestamps that do not parse: the     *)
(* store keeps timestamp as TEXT and the functions take any []Measurement)  *)
(* and who calls every analysis function on the history.                    *)
MaxLen == 3

(* A timestamp that does not parse is "" (length 0) or a date and time in   *)
(* another layout, "2006-01-02 15:04:05" (length 19).                       *)
Other(state) == IF state = "discharging" THEN "charging" ELSE "discharging"

Steps(state) ==
    { [step |-> Step(30, -1, -10, TRUE, state), badLen |-> 0],
      [step |-> Step(30, 0, 0, TRUE, Other(state)), badLen |-> 0],
      [step |-> Step(30, 25, 100, TRUE, state), badLen |-> 0],
      [step |-> Step(60, 25, 100, TRUE, state), badLen |-> 0],
      [step |-> Step(60, -45, -600, TRUE, state), badLen |-> 0],
      [step |-> Step(10 * Minute, -45, -1500, TRUE, state), badLen |-> 0],
      [step |-> Step(30, -1, -10, FALSE, state), badLen |-> 0],
      [step |-> Step(30, -1, -10, FALSE, Other(state)), badLen |-> 0],
      [step |-> Step(30, 25, 0, FALSE, state), badLen |-> 19] }

Sample ==
    /\ Len(ms) < MaxLen
    /\ IF ms = <<>> THEN Store(FirstSample, 0)
       ELSE \E c \in Steps(ms[Len(ms)].State) :
                /\ InRange(Next_(ms[Len(ms)], c.step, c.badLen))
                /\ Store(Next_(ms[Len(ms)], c.step, c.badLen), now + c.step.dt)

Next ==
    \/ Sample
    \/ \E w \in Windows : CallComputeAvgRate(w)
    \/ \E w \in Windows : CallComputeAvgRateRobust(w)
    \/ CallDetectBatteryAnomalies
    \/ CallDetectChargeCycles
    \/ CallAnalyzeCapacityTrend
    \/ CallAnalyzeBatteryHealth

Spec == InitEmpty /\ [][Next]_vars

-----------------------------------------------------------------------------
(* SpecThresholds: normalizeAnomalyThresholds on intervals from below zero  *)
(* to beyond four minutes, every five seconds, and on ten minutes.                           *)
MaxIntervalSteps == 2

Intervals ==
    { 5 * k : k \in (-MaxIntervalSteps)..(25 * MaxIntervalSteps) } \cup {10 * Minute}

NextThresholds == \E interval \in Intervals : CallNormalizeAnomalyThresholds(interval)

SpecThresholds == InitEmpty /\ [][NextThresholds]_vars

-----------------------------------------------------------------------------
(* SpecCycles: histories for detectChargeCycles.  A sample every 30 s, in   *)
(* any of three states, with a timestamp that parses or not; the charge     *)
(* differs from sample to sample and a "Charged" sample has no capacity;    *)
(* the capacity falls from sample to sample, or rises while charging.       *)
MaxCycleLen == 5

CycleStates == {"discharging", "charging", "Charged"}

CycleMeasurement(i, state, ok) ==
    Measurement(IF ok THEN GoodTime(now + 30) ELSE BadTime(0),
                40 + 9 * i, state, 100, 5000, 5200,
                IF state = "Charged" THEN 0
                ELSE IF state = "charging" THEN 4000 + 100 * i
                ELSE 4000 - 100 * i, 30)

CycleSample ==
    /\ Len(ms) < MaxCycleLen
    /\ \E state \in CycleStates, ok \in BOOLEAN :
           Store(CycleMeasurement(Len(ms), state, ok), now + 30)

NextCycles ==
    \/ CycleSample
    \/ CallDetectChargeCycles

SpecCycles == InitEmpty /\ [][NextCycles]_vars

-----------------------------------------------------------------------------
(* SpecTrend: histories for analyzeCapacityTrend.  A battery whose full     *)
(* charge capacity starts at full0 and loses `drop` mAh from one sample to  *)
(* the next, for the first `knee` samples, is sampled every `step`; some    *)
(* samples lack their full charge capacity or their design capacity (0:    *)
(* not sampled this round) or carry a timestamp that does not parse.  The   *)
(* call may come any time after the last sample: Tick lets ten days pass.   *)
MaxTrendLen == 11
MaxUnsampled == 1
MaxIdleTicks == 3

Battery(step, full0, drop, knee, design) ==
    [step |-> step, full0 |-> full0, drop |-> drop, knee |-> knee, design |-> design]

Batteries ==
    { Battery(4 * Day, 5000, 15, 100, 5200),
      Battery(12 * Hour, 5000, 15, 100, 5200),
      Battery(Day, 5000, 15, 100, 5200),
      Battery(4 * Day, 5000, 150, 1, 5200),
      Battery(4 * Day, 5000, 1, 100, 5200),
      Battery(4 * Day, 4200, 15, 100, 5200),
      Battery(4 * Day, 4000, -15, 100, 5200),
      Battery(4 * Day, 5000, 4, 100, 6000),
      Battery(4 * Day, 5000, 30, 5, 5200),
      Battery(4 * Day, 4310, 15, 100, 5200) }

Min(a, b) == IF a < b THEN a ELSE b

GapKinds == {"nofull", "nodesign", "notime"}

TrendHistory(b, n, gaps, kind) ==
    [i \in 1..n |->
        Measurement(IF i \in gaps /\ kind = "notime" THEN BadTime(19)
                    ELSE GoodTime(i * b.step),
                    80, "discharging", 100,
                    IF i \in gaps /\ kind = "nofull" THEN 0
                    ELSE b.full0 - b.drop * Min(i - 1, b.knee),
                    IF i \in gaps /\ kind = "nodesign" THEN 0 ELSE b.design,
                    4000, 30)]

RECURSIVE LastTime(_)
LastTime(s) ==
    IF s = <<>> THEN 0
    ELSE IF ParseOk(s[Len(s)]) THEN ParseTime(s[Len(s)])
    ELSE LastTime(SubSeq(s, 1, Len(s) - 1))

InitTrend ==
    /\ \E b \in Batteries, n \in 0..MaxTrendLen, kind \in GapKinds :
           \E gaps \in SUBSET (1..n) :
               /\ Cardinality(gaps) <= MaxUnsampled
               /\ ms = TrendHistory(b, n, gaps, kind)
               /\ now = n * b.step
    /\ NoCalls
    /\ ServiceOff

Tick ==
    /\ now - LastTime(ms) < MaxIdleTicks * 10 * Day
    /\ now' = now + 10 * Day
    /\ UNCHANGED <<ms, out, prev>>
    /\ UNCHANGED runtime

NextTrend ==
    \/ Tick
    \/ CallAnalyzeCapacityTrend

SpecTrend == InitTrend /\ [][NextTrend]_vars

-----------------------------------------------------------------------------
(* SpecHealth: histories for analyzeBatteryHealth.  An earlier history      *)
(* (none, a calm one, one whose state flips with every sample, one of a     *)
(* battery losing capacity over 40 days) is followed by a latest sample of  *)
(* any wear and cycle count; the call may come later: Tick.                 *)
Calm(i) == Measurement(GoodTime(30 * i), 90 - i, "discharging", 100, 5000, 5200,
                       4500 - 10 * i, 30)

Flip(i) == Measurement(GoodTime(30 * i), 90, IF i % 2 = 0 THEN "charging" ELSE "discharging",
                       100, 5000, 5200, 4500, 30)

Earlier ==
    { [samples |-> <<>>, step |-> 30],
      [samples |-> [i \in 1..3 |-> Calm(i)], step |-> 30],
      [samples |-> [i \in 1..7 |-> Flip(i)], step |-> 30],
      [samples |-> TrendHistory(Battery(4 * Day, 5000, 15, 100, 5200), 10, {}, "nofull"),
       step |-> 4 * Day] }

HealthFulls == {5300, 5044, 4941, 4940, 4681, 4680, 4161, 4160, 3900, 3641, 3640, 3380}

HealthCycles == {0, 100, 299, 300, 499, 500, 799, 800, 1199, 1200, 1500}

Latest(e, full, design, cycles) ==
    Measurement(GoodTime((Len(e.samples) + 1) * e.step), 80, "discharging", cycles,
                full, design, 4000, 30)

(* Histories for the adjustments and the recommendations: states that      *)
(* swing with every sample (3 to 6 state changes, with the latest sample),  *)
(* a swinging history of a battery losing capacity, a flat one that the     *)
(* latest sample ends 40 mAh or more lower, a heavy load of 1800 mAh/h and  *)
(* one of exactly 1000 mAh/h.                                               *)
Swing(i) == Measurement(GoodTime(30 * i), 80, IF i % 2 = 0 THEN "charging" ELSE "discharging",
                        100, 5000, 5200, 4000, 30)

Busy(i) == Measurement(GoodTime(10 * Minute * i), 90 - 5 * i, "discharging", 100, 5000, 5200,
                       4900 - 300 * i, 30)

Steady(i) == Measurement(GoodTime(30 * Minute * i), 85, "discharging", 100, 5000, 5200,
                         4500, 30)

Swinging(history) ==
    [i \in 1..Len(history) |->
        [history[i] EXCEPT !.State = IF i % 2 = 0 THEN "charging" ELSE "discharging"]]

Troubled ==
    { [samples |-> [i \in 1..4 |-> Swing(i)], step |-> 30],
      [samples |-> [i \in 1..6 |-> Swing(i)], step |-> 30],
      [samples |-> Swinging(TrendHistory(Battery(4 * Day, 5000, 15, 100, 5200), 10, {},
                                         "nofull")),
       step |-> 4 * Day],
      [samples |-> TrendHistory(Battery(4 * Day, 4460, 0, 100, 5200), 10, {}, "nofull"),
       step |-> 4 * Day],
      [samples |-> [i \in 1..2 |-> Busy(i)], step |-> 10 * Minute],
      [samples |-> [i \in 1..1 |-> Steady(i)], step |-> 30 * Minute] }

AdviceFulls == {4420, 4419, 4160, 4159}

AdviceCycles == {500, 501, 1000, 1001}

Conditions ==
    { [temp |-> 35, state |-> "charging", pct |-> 100],
      [temp |-> 36, state |-> "charging", pct |-> 99],
      [temp |-> 40, state |-> "discharging", pct |-> 100],
      [temp |-> 41, state |-> "discharging", pct |-> 80] }

LatestWith(e, full, cycles, cond) ==
    Measurement(GoodTime((Len(e.samples) + 1) * e.step), cond.pct, cond.state, cycles,
                full, 5200, 4000, cond.temp)

InitHealth ==
    /\ \/ ms = <<>> /\ now = 0
       \/ \E e \in Earlier, full \in HealthFulls, design \in {0, 5200},
             cycles \in HealthCycles :
              /\ ms = Append(e.samples, Latest(e, full, design, cycles))
              /\ now = (Len(e.samples) + 1) * e.step
       \/ \E e \in Troubled, full \in AdviceFulls, cycles \in AdviceCycles,
             cond \in Conditions :
              /\ ms = Append(e.samples, LatestWith(e, full, cycles, cond))
              /\ now = (Len(e.samples) + 1) * e.step
    /\ NoCalls
    /\ ServiceOff

NextHealth ==
    \/ Tick
    \/ CallAnalyzeBatteryHealth

SpecHealth == InitHealth /\ [][NextHealth]_vars

-----------------------------------------------------------------------------
(* SpecGuards: every place where the analysis divides.  The history is      *)
(* empty and grows as in SpecRate (with pairs of no elapsed time), or is a  *)
(* trend history whose last sample may lack its design capacity; wear and   *)
(* remaining time are called on capacities and rates of either sign.        *)
MaxGuardLen == 2

GuardDesigns == {0, 5200}

GuardFulls == {0, 4000, 5300}

GuardCaps == {0, 4000}

GuardRates == {<<-200, 1>>, Zero, <<200, 1>>, <<1000, 3>>}

GuardBatteries ==
    { Battery(4 * Day, 5000, 15, 100, 5200),
      Battery(12 * Hour, 5000, 15, 100, 5200) }

InitGuards ==
    /\ \/ ms = <<>> /\ now = 0
       \/ \E b \in GuardBatteries, n \in {MaxTrendLen - 1, MaxTrendLen},
             gaps \in {{}, {MaxTrendLen}} :
              /\ ms = TrendHistory(b, n, gaps, "nodesign")
              /\ now = n * b.step
    /\ NoCalls
    /\ ServiceOff

GuardSample == RateGrow(MaxGuardLen)

NextGuards ==
    \/ GuardSample
    \/ \E designCap \in GuardDesigns, fullCap \in GuardFulls :
           CallComputeWear(designCap, fullCap)
    \/ \E currentCap \in GuardCaps, avgRate \in GuardRates :
           CallComputeRemainingTime(currentCap, avgRate)
    \/ \E w \in Windows : CallComputeAvgRate(w)
    \/ \E w \in Windows : CallComputeAvgRateRobust(w)
    \/ CallAnalyzeCapacityTrend

SpecGuards == InitGuards /\ [][NextGuards]_vars

-----------------------------------------------------------------------------
(* SpecAnyOrder: computeAvgRateRobust on histories in any order of time:    *)
(* a sample may be stamped before the one it follows, at the same second,   *)
(* hours later or with a timestamp that does not parse; the window may be   *)
(* empty.                                                                   *)
MaxAnyLen == 3

AnySteps ==
    { Step(30 * Minute, -5, -100, TRUE, "discharging"),
      Step(-(30 * Minute), -5, -100, TRUE, "discharging"),
      Step(0, -5, -100, TRUE, "discharging"),
      Step(3 * Hour, -5, -100, TRUE, "discharging"),
      Step(30 * Minute, -25, -600, TRUE, "discharging"),
      Step(30 * Minute, 5, 100, TRUE, "charging"),
      Step(30 * Minute, -5, -100, FALSE, "discharging") }

AnyWindows == {0, 1, 2, 10}

AnySample ==
    /\ Len(ms) < MaxAnyLen
    /\ IF ms = <<>> THEN Store(FirstSample, 0)
       ELSE \E step \in AnySteps :
                /\ InRange(Next_(ms[Len(ms)], step, 0))
                /\ Store(Next_(ms[Len(ms)], step, 0), now + step.dt)

NextAnyOrder ==
    \/ AnySample
    \/ \E w \in AnyWindows : CallComputeAvgRateRobust(w)

SpecAnyOrder == InitEmpty /\ [][NextAnyOrder]_vars

-----------------------------------------------------------------------------
(* SpecAdvanced: the report's two health scores (export.go) on histories    *)
(* of a calm battery sampled every 30 s: new with more than its design      *)
(* capacity, worn, worn out and hot, of unknown design capacity, or exactly *)
(* at its design capacity; a sample has a voltage of 10 or 12 V or none.    *)
MaxAdvancedLen == 2

AdvancedBattery(design, full, cycles, temp, condition) ==
    [design |-> design, full |-> full, cycles |-> cycles, temp |-> temp,
     condition |-> condition]

AdvancedBatteries ==
    { AdvancedBattery(5000, 5300, 0, 30, ""),
      AdvancedBattery(5000, 4000, 300, 30, ""),
      AdvancedBattery(5000, 2500, 2000, 60, ""),
      AdvancedBattery(0, 4000, 0, 30, "Normal"),
      AdvancedBattery(5000, 5000, 9, 45, "") }

AdvancedVoltages == {0, 10000, 12000}

AdvancedSample ==
    /\ Len(ms) < MaxAdvancedLen
    /\ \E b \in AdvancedBatteries, voltage \in AdvancedVoltages :
           Store(AdvancedMeasurement(
                     Measurement(GoodTime(now + 30), 80, "discharging", b.cycles,
                                 b.full, b.design, 4000, b.temp),
                     voltage, b.condition),
                 now + 30)

NextAdvanced ==
    \/ AdvancedSample
    \/ CallAnalyzeAdvancedMetrics
    \/ CallAnalyzeBatteryHealth

SpecAdvanced == InitEmpty /\ [][NextAdvanced]_vars

-----------------------------------------------------------------------------
(* SpecBuffer: a MemoryBuffer of any small maxSize, filled by Add with      *)
(* samples 30 s apart and read by Size, GetLatest and GetLast(n).           *)
MaxBufferSize == 5
MaxAdds == 7

BufferSample(clock) ==
    Measurement(GoodTime(clock), 80, "discharging", 100, 5000, 5200, 4000, 30)

InitBuffer ==
    /\ ms = <<>>
    /\ now = 0
    /\ NoCalls
    /\ \E maxSize \in 1..MaxBufferSize : buffer = NewMemoryBuffer(maxSize)
    /\ added = <<>>
    /\ flight = {}
    /\ ticker = [pc |-> "off"]
    /\ ctxDone = FALSE
    /\ app = [state |-> "off"]
    /\ keys = <<>>

CallAdd ==
    /\ Len(added) < MaxAdds
    /\ buffer' = Add(buffer, BufferSample(now + 30))
    /\ added' = Append(added, BufferSample(now + 30))
    /\ now' = now + 30
    /\ out' = <<>>
    /\ prev' = <<>>
    /\ UNCHANGED <<ms, flight, ticker, ctxDone, app, keys>>

CallGetLast(n) ==
    /\ Record("GetLast", <<n>>, GetLast(buffer, n))
    /\ UNCHANGED <<ms, now>>

CallGetLatest ==
    /\ Record("GetLatest", <<>>, GetLatest(buffer))
    /\ UNCHANGED <<ms, now>>

CallSize ==
    /\ Record("Size", <<>>, Size(buffer))
    /\ UNCHANGED <<ms, now>>

NextBuffer ==
    \/ CallAdd
    \/ \E n \in 0..(MaxBufferSize + 1) : CallGetLast(n)
    \/ CallGetLatest
    \/ CallSize

SpecBuffer == InitBuffer /\ [][NextBuffer]_vars

-----------------------------------------------------------------------------
(* SpecService: DataService.collectData.  Every tick of the 30 s ticker     *)
(* starts a goroutine that runs CollectAndStore and is not waited for; a    *)
(* goroutine reads pmset and stamps its sample with the clock, fills in the *)
(* details (from ioreg, or from the latest sample of the buffer), inserts   *)
(* the row, and adds the sample to the buffer.  pmset and the insert may    *)
(* fail.  Between two steps of a goroutine any other goroutine may run and  *)
(* the ticker may fire.  `ms` is the table of the database.                 *)
MaxTicks == 2

ServiceInterval == 30

Goroutine(id, pc, m) == [id |-> id, pc |-> pc, m |-> m]

InitService ==
    /\ ms = <<>>
    /\ now = 0
    /\ NoCalls
    /\ buffer = NewMemoryBuffer(DefaultBufferSize)
    /\ added = <<>>
    /\ flight = {}
    /\ ticker = [pc |-> "select", interval |-> ServiceInterval, fired |-> 0]
    /\ ctxDone = FALSE
    /\ app = [state |-> "off"]
    /\ keys = <<>>

(* case <-ticker.C: go func() { ds.collector.CollectAndStore() }()          *)
TickerFires ==
    /\ ticker.pc = "select"
    /\ ticker.fired < MaxTicks
    /\ now' = now + ticker.interval
    /\ ticker' = [ticker EXCEPT !.fired = @ + 1]
    /\ flight' = flight \cup {Goroutine(ticker.fired + 1, "pmset", <<>>)}
    /\ UNCHANGED <<ms, out, prev, buffer, added, ctxDone, app, keys>>

(* parsePMSet, then m.Timestamp = time.Now()                                *)
StampSample(g) ==
    /\ g.pc = "pmset"
    /\ \/ flight' = flight \ {g}
       \/ flight' = (flight \ {g}) \cup
              {Goroutine(g.id, "stamped",
                         Measurement(GoodTime(now), 80, "discharging", 0, 0, 0, 0, 0))}
    /\ UNCHANGED <<ms, now, out, prev, buffer, added, ticker, ctxDone, app, keys>>

(* the details of ioreg, or those of the latest sample of the buffer        *)
Detailed(m, fresh) ==
    IF fresh
    THEN [m EXCEPT !.CycleCount = 100, !.FullChargeCap = 5000, !.DesignCapacity = 5200,
                   !.CurrentCapacity = 4000, !.Temperature = 30]
    ELSE IF GetLatest(buffer) = <<>> THEN m
    ELSE LET latest == GetLatest(buffer)[1]
         IN  [m EXCEPT !.CycleCount = latest.CycleCount,
                       !.FullChargeCap = latest.FullChargeCap,
                       !.DesignCapacity = latest.DesignCapacity,
                       !.CurrentCapacity = latest.CurrentCapacity,
                       !.Temperature = latest.Temperature]

(* the details and insertMeasurement                                        *)
InsertSample(g) ==
    /\ g.pc = "stamped"
    /\ \/ flight' = flight \ {g} /\ UNCHANGED ms
       \/ \E fresh \in BOOLEAN :
              /\ ms' = Append(ms, Detailed(g.m, fresh))
              /\ flight' = (flight \ {g}) \cup
                     {Goroutine(g.id, "inserted", Detailed(g.m, fresh))}
    /\ UNCHANGED <<now, out, prev, buffer, added, ticker, ctxDone, app, keys>>

(* dc.buffer.Add of the sample; the goroutine ends                         *)
AddSample(g) ==
    /\ g.pc = "inserted"
    /\ buffer' = Add(buffer, g.m)
    /\ added' = Append(added, g.m)
    /\ flight' = flight \ {g}
    /\ out' = <<>>
    /\ prev' = <<>>
    /\ UNCHANGED <<ms, now, ticker, ctxDone, app, keys>>

(* DataService.Stop: ds.cancel()                                            *)
StopService ==
    /\ ~ctxDone
    /\ ctxDone' = TRUE
    /\ UNCHANGED <<ms, now, out, prev, buffer, added, flight, ticker, app, keys>>

(* case <-ds.ctx.Done(): return                                             *)
LoopReturns ==
    /\ ticker.pc = "select"
    /\ ctxDone
    /\ ticker' = [ticker EXCEPT !.pc = "returned"]
    /\ UNCHANGED <<ms, now, out, prev, buffer, added, flight, ctxDone, app, keys>>

NextService ==
    \/ TickerFires
    \/ \E g \in flight : StampSample(g)
    \/ \E g \in flight : InsertSample(g)
    \/ \E g \in flight : AddSample(g)
    \/ StopService
    \/ LoopReturns
    \/ CallGetLast(MaxTicks)

SpecService == InitService /\ [][NextService]_vars

-----------------------------------------------------------------------------
(* SpecCollection: backgroundDataCollection.  One measurement before the    *)
(* ticker is made, then one per tick; a collection may fail.  After a       *)
(* successful collection of the loop the ticker is reset according to the   *)
(* latest sample of the buffer.  `now` is the time of the latest tick and   *)
(* ticker.next the time of the next one.  select takes a tick or the        *)
(* cancellation, whichever is ready; when both are it takes either.         *)
MaxCollections == 3

PmsetInterval == 30
ChargedInterval == 5 * Minute

CollectedStates == {"discharging", "charging", "Charging", "charged"}

CollectedSample(state, pct) ==
    Measurement(GoodTime(now), pct, state, 100, 5000, 5200, 4000, 30)

InitCollection ==
    /\ ms = <<>>
    /\ now = 0
    /\ NoCalls
    /\ \E loaded \in {<<>>, <<CollectedSample("charging", 100)>>} :
           buffer = [NewMemoryBuffer(DefaultBufferSize) EXCEPT !.measurements = loaded]
    /\ added = <<>>
    /\ flight = {}
    /\ ticker = [pc |-> "first", interval |-> 0, next |-> 0, fired |-> 0]
    /\ ctxDone = FALSE
    /\ app = [state |-> "off"]
    /\ keys = <<>>

(* collector.collectAndStore(), then time.NewTicker(collector.pmsetInterval) *)
FirstMeasurement ==
    /\ ticker.pc = "first"
    /\ \/ UNCHANGED <<buffer, added>>
       \/ \E state \in CollectedStates, pct \in {50, 100} :
              /\ buffer' = Add(buffer, CollectedSample(state, pct))
              /\ added' = Append(added, CollectedSample(state, pct))
    /\ ticker' = [pc |-> "select", interval |-> PmsetInterval,
                  next |-> now + PmsetInterval, fired |-> 0]
    /\ UNCHANGED <<ms, now, out, prev, flight, ctxDone, app, keys>>

(* mutant: any charging sample slows the ticker down                        *)
Adapted_AnyCharging(tk, latest, clock) ==
    IF latest = <<>> THEN [tk EXCEPT !.next = clock + tk.interval]
    ELSE IF ToLower(latest[1].State) = "charging"
         THEN [tk EXCEPT !.interval = ChargedInterval, !.next = clock + ChargedInterval]
    ELSE IF ToLower(latest[1].State) = "discharging"
         THEN [tk EXCEPT !.interval = PmsetInterval, !.next = clock + PmsetInterval]
    ELSE [tk EXCEPT !.next = clock + tk.interval]

(* the ticker after the adaptation at time `clock`: ticker.Reset(d) makes   *)
(* the period d and the next tick clock + d; without a Reset the next tick  *)
(* comes one period later                                                   *)
Adapted(tk, latest, clock) ==
    IF latest = <<>> THEN [tk EXCEPT !.next = clock + tk.interval]
    ELSE IF ToLower(latest[1].State) = "charging" /\ latest[1].Percentage >= 100
         THEN [tk EXCEPT !.interval = ChargedInterval, !.next = clock + ChargedInterval]
    ELSE IF ToLower(latest[1].State) = "discharging"
         THEN [tk EXCEPT !.interval = PmsetInterval, !.next = clock + PmsetInterval]
    ELSE [tk EXCEPT !.next = clock + tk.interval]

(* case <-ticker.C: collectAndStore; on an error `continue`                 *)
TickCollect ==
    /\ ticker.pc = "select"
    /\ ticker.fired < MaxCollections
    /\ now' = ticker.next
    /\ \/ /\ ticker' = [ticker EXCEPT !.next = ticker.next + ticker.interval,
                                       !.fired = @ + 1]
          /\ UNCHANGED <<buffer, added>>
       \/ \E state \in CollectedStates, pct \in {50, 100} :
              LET m == Measurement(GoodTime(ticker.next), pct, state, 100, 5000, 5200,
                                   4000, 30)
              IN  /\ buffer' = Add(buffer, m)
                  /\ added' = Append(added, m)
                  /\ ticker' = [Adapted(ticker, GetLatest(Add(buffer, m)), ticker.next)
                                    EXCEPT !.fired = @ + 1]
    /\ UNCHANGED <<ms, out, prev, flight, ctxDone, app, keys>>

(* the caller cancels the context                                           *)
CancelContext ==
    /\ ~ctxDone
    /\ ctxDone' = TRUE
    /\ UNCHANGED <<ms, now, out, prev, buffer, added, flight, ticker, app, keys>>

(* case <-ctx.Done(): return                                                *)
CollectionReturns ==
    /\ ticker.pc = "select"
    /\ ctxDone
    /\ ticker' = [ticker EXCEPT !.pc = "returned"]
    /\ UNCHANGED <<ms, now, out, prev, buffer, added, flight, ctxDone, app, keys>>

NextCollection ==
    \/ FirstMeasurement
    \/ TickCollect
    \/ CancelContext
    \/ CollectionReturns

(* The goroutine runs: its first measurement is made; and select is fair to *)
(* a case that stays ready: the cancellation is taken.                      *)
SpecCollection ==
    /\ InitCollection /\ [][NextCollection]_vars
    /\ WF_vars(FirstMeasurement) /\ WF_vars(CollectionReturns)

-----------------------------------------------------------------------------
(* SpecApp: the TUI (App.Update and the key handlers of the eight screens). *)
(* app.state is the screen, app.quit says that a handler returned tea.Quit  *)
(* (the program ends: no further key is handled), ctxDone that              *)
(* dataService.Stop() was called.  `keys` is the history of the keys        *)
(* pressed, each with the screen it was pressed on.  The Cyrillic key on    *)
(* the position of q is named "q (ru)".  Window, tick and data messages     *)
(* change neither the screen nor quit and are left out.                     *)
MaxKeys == 4

AppStates ==
    {"StateWelcome", "StateMenu", "StateDashboard", "StateReport", "StateQuickDiag",
     "StateExport", "StateSettings", "StateHelp"}

QuitKeys == {"ctrl+c", "q", "q (ru)"}

Keys == QuitKeys \cup {"enter", "space", "y", "n"}

MenuItems == {"Dashboard", "QuickDiag", "Report", "Export", "Settings", "Help", "Exit"}

(* what a handler returns: the App and whether it stopped the data service  *)
Handled(a, stop) == [app |-> a, stop |-> stop]

Quit(a) == Handled([a EXCEPT !.quit = TRUE], TRUE)

ToMenu(a) == Handled([a EXCEPT !.state = "StateMenu"], FALSE)

updateWelcome(a, key) ==
    IF key \in QuitKeys THEN Quit(a)
    ELSE IF key \in {"enter", "space"} THEN ToMenu(a)
    ELSE Handled(a, FALSE)

updateMenu(a, key, item) ==
    IF key \in QuitKeys THEN Quit(a)
    ELSE IF key = "enter"
         THEN IF item = "Exit" THEN Quit(a)
              ELSE Handled([a EXCEPT !.state = "State" \o item], FALSE)
    ELSE Handled(a, FALSE)

(* mutant: q on a screen other than Welcome and Menu quits as well          *)
updateScreen_Quits(a, key) ==
    IF key \in QuitKeys THEN Quit(a)
    ELSE IF a.state = "StateSettings" /\ key \in {"y", "n"} THEN ToMenu(a)
    ELSE Handled(a, FALSE)

(* updateDashboard, updateReport, updateQuickDiag, updateExport,            *)
(* updateSettings, updateHelp: q leads back to the menu; so do y and n on   *)
(* the Settings screen                                                      *)
updateScreen(a, key) ==
    IF key \in QuitKeys THEN ToMenu(a)
    ELSE IF a.state = "StateSettings" /\ key \in {"y", "n"} THEN ToMenu(a)
    ELSE Handled(a, FALSE)

(* App.Update on a tea.KeyMsg: the handler of the current screen            *)
Update(a, key, item) ==
    CASE a.state = "StateWelcome" -> updateWelcome(a, key)
      [] a.state = "StateMenu" -> updateMenu(a, key, item)
      [] OTHER -> updateScreen(a, key)

InitApp ==
    /\ ms = <<>>
    /\ now = 0
    /\ NoCalls
    /\ buffer = NewMemoryBuffer(DefaultBufferSize)
    /\ added = <<>>
    /\ flight = {}
    /\ ticker = [pc |-> "off"]
    /\ ctxDone = FALSE
    /\ app = [state |-> "StateWelcome", quit |-> FALSE]
    /\ keys = <<>>

KeyMsg(key, item) ==
    /\ ~app.quit
    /\ Len(keys) < MaxKeys
    /\ app' = Update(app, key, item).app
    /\ ctxDone' = (ctxDone \/ Update(app, key, item).stop)
    /\ keys' = Append(keys, [key |-> key, on |-> app.state])
    /\ UNCHANGED <<ms, now, out, prev, buffer, added, flight, ticker>>

WelcomeKey == app.state = "StateWelcome" /\ \E key \in Keys : KeyMsg(key, "Exit")

MenuKey == app.state = "StateMenu" /\ \E key \in Keys, item \in MenuItems : KeyMsg(key, item)

ScreenKey ==
    /\ app.state \notin {"StateWelcome", "StateMenu"}
    /\ \E key \in Keys : KeyMsg(key, "Exit")

NextApp ==
    \/ WelcomeKey
    \/ MenuKey
    \/ ScreenKey

SpecApp == InitApp /\ [][NextApp]_vars

-----------------------------------------------------------------------------
(* Properties.  A slot is `out` or `prev`: <<>> or <<call>>.                *)
Is(slot, fn) == slot # <<>> /\ slot[1].fn = fn

Covers(slot) == slot[1].args[1] >= Len(ms) - 1

Pairs(s) == 0..(Len(s) - 2)

AllParse(s) == \A i \in 1..Len(s) : ParseOk(s[i])

Elapsed(s, i) == ParseTime(At(s, i + 1)) - ParseTime(At(s, i))

Lost(s, i) == At(s, i).CurrentCapacity - At(s, i + 1).CurrentCapacity

ChargeDelta(s, i) == abs(At(s, i + 1).Percentage - At(s, i).Percentage)

StrictlyAscending(s) == AllParse(s) /\ \A i \in Pairs(s) : Elapsed(s, i) > 0

SteadyDischarge(s) ==
    /\ Len(s) >= 2
    /\ \A i \in 1..Len(s) : s[i].State = "discharging"
    /\ \A i \in Pairs(s) : Lost(s, i) > 0

(* total capacity lost / total hours elapsed, from the first sample to the last *)
LostPerHour(s) ==
    Rat((s[1].CurrentCapacity - s[Len(s)].CurrentCapacity) * Hour,
        ParseTime(s[Len(s)]) - ParseTime(s[1]))

WithinLimits(s, i) ==
    /\ ChargeDelta(s, i) <= 20
    /\ abs(Lost(s, i)) <= 500
    /\ Elapsed(s, i) <= 2 * Hour

Positive(r) == r[1] > 0

(* C2 as stated: on a history with increasing timestamps that discharges     *)
(* steadily both estimators, with a window covering it, return the positive *)
(* rate total capacity lost / total hours elapsed, whatever the intervals   *)
(* and the per-pair deltas are.                                             *)
C2_AsStated(slot) ==
    /\ Is(slot, "computeAvgRate") /\ Covers(slot) /\ StrictlyAscending(ms)
            /\ SteadyDischarge(ms)
        => Positive(slot[1].val) /\ slot[1].val = LostPerHour(ms)
    /\ Is(slot, "computeAvgRateRobust") /\ Covers(slot) /\ StrictlyAscending(ms)
            /\ SteadyDischarge(ms)
        => Positive(slot[1].val.rate) /\ slot[1].val.rate = LostPerHour(ms)

(* C2 as stated: both estimators return total lost / total hours on every   *)
(* steadily discharging history, for the latest call and the one before it. *)
C2_Original == C2_AsStated(out) /\ C2_AsStated(prev)

(* C2 amended: with strictly increasing timestamps computeAvgRate returns   *)
(* the positive rate total lost / total hours; computeAvgRateRobust does so *)
(* when every pair has a charge delta of at most 20, a capacity delta of at *)
(* most 500 and at most 2 hours elapsed, and then counts every pair.        *)
C2_Holds(slot) ==
    /\ Is(slot, "computeAvgRate") /\ Covers(slot) /\ StrictlyAscending(ms)
            /\ SteadyDischarge(ms)
        => Positive(slot[1].val) /\ slot[1].val = LostPerHour(ms)
    /\ Is(slot, "computeAvgRateRobust") /\ Covers(slot) /\ StrictlyAscending(ms)
            /\ SteadyDischarge(ms) /\ (\A i \in Pairs(ms) : WithinLimits(ms, i))
        => /\ Positive(slot[1].val.rate)
           /\ slot[1].val.rate = LostPerHour(ms)
           /\ slot[1].val.validIntervals = Len(ms) - 1

(* C2 amended: computeAvgRate returns total lost / total hours; so does     *)
(* computeAvgRateRobust when every pair is within its limits (20 points,    *)
(* 500 mAh, 2 hours); for the latest call and the one before it.            *)
C2_Monotonicity == C2_Holds(out) /\ C2_Holds(prev)

(* both estimators called on one steady history of three samples, 30 and 60 *)
(* minutes apart, and both returning the overall rate                       *)
C2_Witness ==
    /\ Is(prev, "computeAvgRate") /\ Is(out, "computeAvgRateRobust")
    /\ Covers(prev) /\ Covers(out)
    /\ Len(ms) = 3 /\ StrictlyAscending(ms) /\ SteadyDischarge(ms)
    /\ Elapsed(ms, 0) # Elapsed(ms, 1)
    /\ \A i \in Pairs(ms) : WithinLimits(ms, i)
    /\ out[1].val.rate = LostPerHour(ms)
    /\ prev[1].val = out[1].val.rate

(* C3: one pair with a charge delta of exactly 25, every pair losing at     *)
(* most 500 mAh within two hours, all others with a charge delta of at most *)
(* 20: the robust estimator counts every pair of its window but that one,   *)
(* and the naive estimator still returns the rate over all pairs.           *)
OneOutlier(s, o) ==
    /\ o \in Pairs(s)
    /\ StrictlyAscending(s)
    /\ ChargeDelta(s, o) = 25
    /\ \A i \in Pairs(s) : Lost(s, i) > 0 /\ Lost(s, i) <= 500 /\ Elapsed(s, i) <= 2 * Hour
    /\ \A i \in Pairs(s) \ {o} : ChargeDelta(s, i) <= 20

WindowPairs(s, w) == { i \in Pairs(s) : i >= Len(s) - 1 - w }

C3_Holds(slot) ==
    \A o \in Pairs(ms) :
        OneOutlier(ms, o) =>
            /\ Is(slot, "computeAvgRateRobust")
                => /\ slot[1].val.validIntervals =
                          Cardinality(WindowPairs(ms, slot[1].args[1]) \ {o})
                   /\ Covers(slot) => slot[1].val.validIntervals = (Len(ms) - 1) - 1
            /\ Is(slot, "computeAvgRate") /\ Covers(slot)
                => slot[1].val = LostPerHour(ms)

(* C3: with one pair of charge delta 25 computeAvgRateRobust counts every   *)
(* pair but that one and computeAvgRate still sums over all pairs.          *)
C3_OutlierRejection == C3_Holds(out) /\ C3_Holds(prev)

(* three pairs, the middle one the outlier: the robust estimator counts     *)
(* two, the naive one returns the rate over all three                       *)
C3_Witness ==
    /\ Len(ms) = 4 /\ OneOutlier(ms, 1)
    /\ Is(prev, "computeAvgRate") /\ Covers(prev)
    /\ Is(out, "computeAvgRateRobust") /\ Covers(out)
    /\ out[1].val.validIntervals = 2
    /\ prev[1].val = LostPerHour(ms)
    /\ prev[1].val # out[1].val.rate

(* C8 as stated: no call of an analysis function panics.                    *)
C8_NoPanic(slot) ==
    Is(slot, "detectBatteryAnomalies") \/ Is(slot, "analyzeBatteryHealth")
        => ~slot[1].val.panic

(* C8 as stated: neither detectBatteryAnomalies nor analyzeBatteryHealth    *)
(* panics, whatever the timestamps of the history are.                      *)
C8_Original == C8_NoPanic(out) /\ C8_NoPanic(prev)

(* C10: below its minimum of samples each function returns its default.     *)
C10_Holds(slot) ==
    /\ Is(slot, "computeAvgRate") /\ Len(ms) < 2 => slot[1].val = Zero
    /\ Is(slot, "computeAvgRateRobust") /\ Len(ms) < 2
        => slot[1].val = [rate |-> Zero, validIntervals |-> 0]
    /\ Is(slot, "detectBatteryAnomalies") /\ Len(ms) < 2
        => slot[1].val = [panic |-> FALSE, anomalies |-> <<>>]
    /\ Is(slot, "detectChargeCycles") /\ Len(ms) < 3 => slot[1].val = <<>>

(* C10: below its minimum of samples (2, 2, 2, 3) each function returns its *)
(* default: 0, (0, 0), no anomaly, no cycle.                                *)
C10_Defaults == C10_Holds(out) /\ C10_Holds(prev)

(* two samples with a state change between them: the anomaly detector has   *)
(* its minimum and reports the change, the cycle segmenter has not and      *)
(* returns the empty list                                                   *)
C10_Witness ==
    /\ Len(ms) = 2 /\ ms[1].State # ms[2].State /\ AllParse(ms)
    /\ Is(prev, "detectBatteryAnomalies") /\ prev[1].val.anomalies # <<>>
    /\ Is(out, "detectChargeCycles") /\ out[1].val = <<>>

(* C1 as stated: with at least 3 samples, all timestamps parsing, there is  *)
(* one segment per maximal run of equal state: transitions + 1.             *)
Transitions(s) == { i \in 1..(Len(s) - 1) : At(s, i - 1).State # At(s, i).State }

StatesOf(s) == [i \in 1..Len(s) |-> s[i].State]

BoundaryExample ==
    <<"discharging", "discharging", "charging", "charging", "discharging">>

C1_AsStated(slot) ==
    Is(slot, "detectChargeCycles") /\ Len(ms) >= 3 /\ AllParse(ms)
        => /\ Len(slot[1].val) = Cardinality(Transitions(ms)) + 1
           /\ StatesOf(ms) = BoundaryExample => Len(slot[1].val) = 3

(* C1 as stated: detectChargeCycles returns transitions + 1 segments, 3 for *)
(* the example.                                                             *)
C1_Original == C1_AsStated(out) /\ C1_AsStated(prev)

(* C1 amended: there is one segment per state transition, opened at the     *)
(* transition sample, and none for the run before the first transition; the *)
(* example yields 2 segments, opened at indices 2 and 4.                    *)
C1_Holds(slot) ==
    Is(slot, "detectChargeCycles") /\ Len(ms) >= 3 /\ AllParse(ms)
        => /\ Len(slot[1].val) = Cardinality(Transitions(ms))
           /\ \A i \in Transitions(ms) :
                  \E k \in 1..Len(slot[1].val) :
                      slot[1].val[k].StartTime = ParseTime(At(ms, i))
           /\ StatesOf(ms) = BoundaryExample
                => /\ Len(slot[1].val) = 2
                   /\ slot[1].val[1].StartTime = ParseTime(At(ms, 2))
                   /\ slot[1].val[2].StartTime = ParseTime(At(ms, 4))

(* C1 amended: detectChargeCycles returns one segment per transition, each  *)
(* opened at its transition sample, 2 for the example.                      *)
C1_Segments == C1_Holds(out) /\ C1_Holds(prev)

(* the example history, segmented in two                                    *)
C1_Witness ==
    /\ Is(out, "detectChargeCycles") /\ AllParse(ms)
    /\ StatesOf(ms) = BoundaryExample
    /\ Len(out[1].val) = 2
    /\ out[1].val[1].CycleType = "charging" /\ out[1].val[2].CycleType = "discharging"

(* C4: the thresholds are min(floor(20 * m * 2), 50) and                    *)
(* min(floor(500 * m), 2000) with m = max(interval in minutes, 0.5);        *)
(* (40, 500) for 60 seconds and (50, 2000) for 10 minutes.                  *)
FloorOf(n, d) == n \div d

C4_Holds(slot) ==
    Is(slot, "normalizeAnomalyThresholds")
        => LET interval == slot[1].args[1]
               secs == IF interval > 30 THEN interval ELSE 30
           IN  /\ slot[1].val.charge = Min(FloorOf(20 * secs * 2, 60), 50)
               /\ slot[1].val.capacity = Min(FloorOf(500 * secs, 60), 2000)
               /\ interval = 60 => slot[1].val = [charge |-> 40, capacity |-> 500]
               /\ interval = 10 * Minute
                    => slot[1].val = [charge |-> 50, capacity |-> 2000]

(* C4: normalizeAnomalyThresholds returns min(floor(40 m), 50) and          *)
(* min(floor(500 m), 2000), m = max(minutes, 0.5).                          *)
C4_ThresholdScaling == C4_Holds(out) /\ C4_Holds(prev)

(* called on one minute and then on ten minutes                             *)
C4_Witness ==
    /\ Is(prev, "normalizeAnomalyThresholds") /\ prev[1].args = <<60>>
    /\ prev[1].val = [charge |-> 40, capacity |-> 500]
    /\ Is(out, "normalizeAnomalyThresholds") /\ out[1].args = <<10 * Minute>>
    /\ out[1].val = [charge |-> 50, capacity |-> 2000]

(* The samples analyzeCapacityTrend can use at time `clock`: stamped less   *)
(* than 30 days before it, with both capacities.                            *)
Qualifying(s, clock) ==
    { i \in 1..Len(s) : /\ ParseOk(s[i])
                        /\ clock - ParseTime(s[i]) < 30 * Day
                        /\ s[i].FullChargeCap > 0
                        /\ s[i].DesignCapacity > 0 }

Lowest(S) == CHOOSE i \in S : \A j \in S : i <= j

Highest(S) == CHOOSE i \in S : \A j \in S : j <= i

SpanOf(s, S) == ParseTime(s[Highest(S)]) - ParseTime(s[Lowest(S)])

Enough(s, clock) ==
    /\ Len(s) >= 10
    /\ Cardinality(Qualifying(s, clock)) >= 5
    /\ SpanOf(s, Qualifying(s, clock)) >= 7 * Day

(* (full_j - full_i) / days * 30 / design_j * 100                           *)
MonthlyPercent(s, i, j) ==
    RMul(Rat((s[j].FullChargeCap - s[i].FullChargeCap) * 30 * 100, s[j].DesignCapacity),
         Rat(Day, ParseTime(s[j]) - ParseTime(s[i])))

Between(lo, r, hi) == RLess(lo, r) /\ RLess(r, hi)

(* 11 samples spanning 40 days, from 5000 to 4850 mAh, design 5200          *)
Scenario(s) ==
    /\ Len(s) = 11
    /\ AllParse(s)
    /\ ParseTime(s[11]) - ParseTime(s[1]) = 40 * Day
    /\ s[1].FullChargeCap = 5000 /\ s[11].FullChargeCap = 4850
    /\ \A i \in 1..11 : s[i].DesignCapacity = 5200

Linear(s) ==
    \A i \in 1..(Len(s) - 2) :
        /\ Elapsed(s, i) = Elapsed(s, i - 1)
        /\ s[i + 2].FullChargeCap - s[i + 1].FullChargeCap
              = s[i + 1].FullChargeCap - s[i].FullChargeCap

(* C6 as stated: in the scenario the rate is about -2.16 %, the slope       *)
(* between the first and the last of the 11 samples, the trend is unhealthy *)
(* and the projection is not zero.                                          *)
C6_AsStated(slot) ==
    Is(slot, "analyzeCapacityTrend") /\ Scenario(ms)
        => /\ slot[1].val.DegradationRate = MonthlyPercent(ms, 1, 11)
           /\ Between(Rat(-217, 100), slot[1].val.DegradationRate, Rat(-215, 100))
           /\ ~slot[1].val.IsHealthy
           /\ slot[1].val.ProjectedLifetime # 0

(* C6 as stated: analyzeCapacityTrend reports the slope over all 11 samples of *)
(* the scenario, about -2.16 %, unhealthy, with a projection.               *)
C6_Original == C6_AsStated(out) /\ C6_AsStated(prev)

(* C6 amended: the slope is taken between the first and the last of the     *)
(* samples stamped less than 30 days before the call, never all 11; when at *)
(* least 5 of them span at least 7 days and the capacity falls linearly,    *)
(* the rate is about -2.16 %, unhealthy, with a projection; when fewer than *)
(* 5 are left the result is the healthy default.                            *)
C6_Holds(slot) ==
    Is(slot, "analyzeCapacityTrend") /\ Scenario(ms)
        => LET q == Qualifying(ms, slot[1].at)
           IN  /\ Cardinality(q) < 11
               /\ IF Enough(ms, slot[1].at)
                  THEN /\ slot[1].val.DegradationRate
                              = MonthlyPercent(ms, Lowest(q), Highest(q))
                       /\ Linear(ms)
                            => /\ Between(Rat(-217, 100), slot[1].val.DegradationRate,
                                          Rat(-215, 100))
                               /\ ~slot[1].val.IsHealthy
                               /\ slot[1].val.ProjectedLifetime > 0
                  ELSE slot[1].val = HealthyDefault

(* C6 amended: analyzeCapacityTrend reports the slope over the samples of the *)
(* scenario stamped less than 30 days before the call.                      *)
C6_Scenario == C6_Holds(out) /\ C6_Holds(prev)

(* the linear scenario analysed at its last sample: 8 samples qualify       *)
C6_Witness ==
    /\ Is(out, "analyzeCapacityTrend") /\ Scenario(ms) /\ Linear(ms)
    /\ out[1].at = ParseTime(ms[11])
    /\ Cardinality(Qualifying(ms, out[1].at)) = 8
    /\ Between(Rat(-217, 100), out[1].val.DegradationRate, Rat(-215, 100))
    /\ ~out[1].val.IsHealthy
    /\ out[1].val.ProjectedLifetime > 0

(* C7 as stated: two calls of a function on the same history with the same  *)
(* arguments return the same result, whatever time passed between them.     *)
C7_Original ==
    prev # <<>> /\ out # <<>> /\ prev[1].fn = out[1].fn /\ prev[1].args = out[1].args
        => prev[1].val = out[1].val

(* C9: the healthy default whenever there are fewer than 10 samples, fewer  *)
(* than 5 qualifying ones, or fewer than 7 days between the first and the   *)
(* last qualifying one; unhealthy only when all three minimums are met.     *)
C9_Holds(slot) ==
    Is(slot, "analyzeCapacityTrend")
        => /\ ~Enough(ms, slot[1].at) => slot[1].val = HealthyDefault
           /\ ~slot[1].val.IsHealthy => Enough(ms, slot[1].at)

(* C9: analyzeCapacityTrend returns the healthy default on insufficient     *)
(* evidence and reports unhealthy only when all three minimums are met.     *)
C9_InsufficientEvidence == C9_Holds(out) /\ C9_Holds(prev)

(* a history found unhealthy, and healthy by default once all but 4 of its  *)
(* qualifying samples are older than 30 days                                *)
C9_Witness ==
    /\ Is(prev, "analyzeCapacityTrend") /\ ~prev[1].val.IsHealthy
    /\ Is(out, "analyzeCapacityTrend") /\ out[1].val = HealthyDefault
    /\ Len(ms) >= 10
    /\ Cardinality(Qualifying(ms, out[1].at)) < 5
    /\ Cardinality(Qualifying(ms, out[1].at)) > 0

(* C5: the base status and score come from the table on (wear %, cycles),   *)
(* first row that matches, both limits strict: (5, 300) Excellent 95,       *)
(* (10, 500) Good 85, (20, 800) Fair 70, (30, 1200) Needs attention 50,     *)
(* else Poor 30; what is reported is the base with the adjustments applied. *)
Table ==
    << [wear |-> 5, cycles |-> 300, status |-> "Excellent", score |-> 95],
       [wear |-> 10, cycles |-> 500, status |-> "Good", score |-> 85],
       [wear |-> 20, cycles |-> 800, status |-> "Fair", score |-> 70],
       [wear |-> 30, cycles |-> 1200, status |-> "Needs attention", score |-> 50] >>

(* wear % < limit, on the capacities: (design - full) * 100 < limit * design *)
WearBelow(m, limit) ==
    IF m.DesignCapacity = 0 THEN 0 < limit
    ELSE (m.DesignCapacity - m.FullChargeCap) * 100 < limit * m.DesignCapacity

RowMatches(m, k) == WearBelow(m, Table[k].wear) /\ m.CycleCount < Table[k].cycles

FirstRow(m) ==
    IF \E k \in 1..Len(Table) : RowMatches(m, k)
    THEN Table[Lowest({ k \in 1..Len(Table) : RowMatches(m, k) })]
    ELSE [wear |-> 0, cycles |-> 0, status |-> "Poor", score |-> 30]

Adjustment(val) ==
    (IF val.anomaly_count > 5 THEN 10 ELSE 0)
    + (IF ~val.trend_analysis.IsHealthy
          /\ RLess(val.trend_analysis.DegradationRate, Rat(-1, 1)) THEN 15 ELSE 0)

C5_Holds(slot) ==
    Is(slot, "analyzeBatteryHealth") /\ ms # <<>>
        => LET latest == ms[Len(ms)]
               val == slot[1].val
           IN  /\ val.health_status[1] = FirstRow(latest).status
               /\ val.health_score + Adjustment(val) = FirstRow(latest).score
               /\ Adjustment(val) = 0 /\ WearBelow(latest, 5) /\ latest.CycleCount = 100
                    => val.health_score = 95 /\ val.health_status = <<"Excellent">>
               /\ Adjustment(val) = 0 /\ ~WearBelow(latest, 25) /\ WearBelow(latest, 26)
                       /\ latest.CycleCount = 1500
                    => val.health_score = 30 /\ val.health_status = <<"Poor">>

(* C5: analyzeBatteryHealth takes the base status and score from the first  *)
(* matching row of the table.                                               *)
C5_HealthTable == C5_Holds(out) /\ C5_Holds(prev)

(* wear 25 % at 1500 cycles, no adjustment: Poor, 30                        *)
C5_Witness ==
    /\ Is(out, "analyzeBatteryHealth") /\ ms # <<>>
    /\ ms[Len(ms)].FullChargeCap = 3900 /\ ms[Len(ms)].DesignCapacity = 5200
    /\ ms[Len(ms)].CycleCount = 1500
    /\ Adjustment(out[1].val) = 0
    /\ out[1].val.health_score = 30 /\ out[1].val.health_status = <<"Poor">>

-----------------------------------------------------------------------------
(* Sums over the pairs of a window.                                         *)
RECURSIVE SumElapsed(_, _)
SumElapsed(s, I) ==
    IF I = {} THEN 0
    ELSE LET i == CHOOSE j \in I : TRUE IN Elapsed(s, i) + SumElapsed(s, I \ {i})

RECURSIVE SumLost(_, _)
SumLost(s, I) ==
    IF I = {} THEN 0
    ELSE LET i == CHOOSE j \in I : TRUE IN Lost(s, i) + SumLost(s, I \ {i})

PairParses(s, i) == ParseOk(At(s, i)) /\ ParseOk(At(s, i + 1))

(* the pairs of the trailing window whose capacity fell                     *)
NaivePairs(s, w) == { i \in WindowPairs(s, w) : Lost(s, i) > 0 /\ PairParses(s, i) }

(* those of them that pass every filter of the robust estimator             *)
RobustPairs(s, w) ==
    { i \in NaivePairs(s, w) : /\ ChargeDelta(s, i) <= 20
                               /\ abs(Lost(s, i)) <= 500
                               /\ Elapsed(s, i) > 0
                               /\ Elapsed(s, i) <= 2 * Hour }

C11_Holds(slot) ==
    /\ Is(slot, "computeWear")
        => LET designCap == slot[1].args[1]
               fullCap == slot[1].args[2]
               val == slot[1].val
           IN  /\ Finite(val)
               /\ designCap = 0 => val = Zero
               /\ designCap # 0 => val[1] * designCap = (designCap - fullCap) * 100 * val[2]
    /\ Is(slot, "computeRemainingTime")
        => LET currentCap == slot[1].args[1]
               avgRate == slot[1].args[2]
           IN  /\ avgRate[1] <= 0 => slot[1].val = 0
               /\ avgRate[1] > 0
                    => slot[1].val = (currentCap * Hour * avgRate[2]) \div avgRate[1]
    /\ Is(slot, "computeAvgRate")
        => /\ Finite(slot[1].val)
           /\ SumElapsed(ms, NaivePairs(ms, slot[1].args[1])) = 0 => slot[1].val = Zero
    /\ Is(slot, "computeAvgRateRobust")
        => /\ Finite(slot[1].val.rate)
           /\ SumElapsed(ms, RobustPairs(ms, slot[1].args[1])) = 0
                => slot[1].val.rate = Zero
    /\ Is(slot, "analyzeCapacityTrend")
        => /\ Finite(slot[1].val.DegradationRate)
           /\ slot[1].val.DegradationRate # Zero
                => LET q == Qualifying(ms, slot[1].at)
                   IN  /\ q # {}
                       /\ SpanOf(ms, q) >= 7 * Day
                       /\ ms[Highest(q)].DesignCapacity > 0

(* C11: no division by zero: computeWear returns 0 for a zero design        *)
(* capacity, computeRemainingTime 0 for a rate <= 0, the estimators 0 for   *)
(* no accumulated time, and analyzeCapacityTrend divides only by a span of  *)
(* at least 7 days and a positive design capacity; every result is finite.  *)
C11_NoDivisionByZero == C11_Holds(out) /\ C11_Holds(prev)

(* wear asked for a battery without design capacity, then the rate over two *)
(* samples with the same timestamp: both 0                                  *)
C11_Witness ==
    /\ Is(prev, "computeWear") /\ prev[1].args = <<0, 5300>> /\ prev[1].val = Zero
    /\ Is(out, "computeAvgRate") /\ Len(ms) = 2
    /\ Lost(ms, 0) > 0 /\ Elapsed(ms, 0) = 0 /\ PairParses(ms, 0)
    /\ out[1].val = Zero

-----------------------------------------------------------------------------
(* The thresholds of a pair `interval` seconds apart, as C4 states them.    *)
ThresholdsFor(interval) ==
    LET secs == IF interval > 30 THEN interval ELSE 30
    IN  [charge |-> Min(FloorOf(20 * secs * 2, 60), 50),
         capacity |-> Min(FloorOf(500 * secs, 60), 2000)]

AnomalyKinds == {"rise", "drop", "state", "capacity"}

(* how many strings of kind k the list holds for pair i                     *)
Emitted(a, i, k) == Cardinality({ n \in 1..Len(a) : a[n].pair = i /\ a[n].kind = k })

One(cond) == IF cond THEN 1 ELSE 0

PercentDelta(s, i) == At(s, i + 1).Percentage - At(s, i).Percentage

C12_Holds(slot) ==
    Is(slot, "detectBatteryAnomalies") /\ ~slot[1].val.panic
        => LET a == slot[1].val.anomalies
           IN  /\ \A n \in 1..Len(a) : a[n].pair \in Pairs(ms) /\ a[n].kind \in AnomalyKinds
               /\ \A n \in 1..Len(a), k \in 1..Len(a) : n < k => a[n].pair <= a[k].pair
               /\ \A i \in Pairs(ms) :
                      /\ Emitted(a, i, "state") = One(At(ms, i).State # At(ms, i + 1).State)
                      /\ PairParses(ms, i)
                           => LET th == ThresholdsFor(Elapsed(ms, i))
                              IN  /\ Emitted(a, i, "rise")
                                        = One(PercentDelta(ms, i) > th.charge)
                                  /\ Emitted(a, i, "drop")
                                        = One(PercentDelta(ms, i) < -th.charge)
                                  /\ Emitted(a, i, "capacity")
                                        = One(abs(Lost(ms, i)) > th.capacity)

(* C12: for every pair detectBatteryAnomalies emits, independently, one     *)
(* rise, drop, state and capacity string iff its condition holds, the       *)
(* thresholds being those of the pair's own interval and the state change   *)
(* unconditional; the list is ordered by pair.  (Calls that return.)        *)
C12_PairAnomalies == C12_Holds(out) /\ C12_Holds(prev)

(* a first pair with a drop and a capacity change, a second pair with a     *)
(* state change only: three strings, in that order                          *)
C12_Witness ==
    /\ Is(out, "detectBatteryAnomalies") /\ ~out[1].val.panic
    /\ Len(ms) = 3 /\ AllParse(ms)
    /\ Len(out[1].val.anomalies) = 3
    /\ out[1].val.anomalies[1].kind = "drop" /\ out[1].val.anomalies[1].pair = 0
    /\ out[1].val.anomalies[2].kind = "capacity" /\ out[1].val.anomalies[2].pair = 0
    /\ out[1].val.anomalies[3].kind = "state" /\ out[1].val.anomalies[3].pair = 1

C19_AsStated(slot) ==
    Is(slot, "detectBatteryAnomalies") /\ ~slot[1].val.panic
        => LET a == slot[1].val.anomalies
           IN  /\ \A n \in 1..Len(a) :
                      LET i == a[n].pair
                      IN  /\ ParseOk(At(ms, i)) = ParseOk(At(ms, i + 1))
                          /\ PairParses(ms, i) => a[n].interval = Elapsed(ms, i)
                          /\ ~ParseOk(At(ms, i)) /\ ~ParseOk(At(ms, i + 1))
                               => a[n].interval = DefaultIntervalSeconds
               /\ \A i \in Pairs(ms) :
                      ParseOk(At(ms, i)) = ParseOk(At(ms, i + 1))
                      /\ At(ms, i).State # At(ms, i + 1).State
                          => Emitted(a, i, "state") = 1

(* C19 as stated: the 30-second default is used exactly when both           *)
(* timestamps of a pair fail to parse; a pair with only one unparseable     *)
(* timestamp produces no anomaly string; the other pairs are processed.     *)
C19_Original == C19_AsStated(out) /\ C19_AsStated(prev)

-----------------------------------------------------------------------------
C13_Holds(slot) ==
    Is(slot, "analyzeCapacityTrend") /\ Enough(ms, slot[1].at)
        => LET q == Qualifying(ms, slot[1].at)
               monthlyPercent == MonthlyPercent(ms, Lowest(q), Highest(q))
           IN  /\ slot[1].val.DegradationRate = monthlyPercent
               /\ slot[1].val.IsHealthy = RLess(Rat(-1, 2), monthlyPercent)

HealthPercent(s, i) == Rat(s[i].FullChargeCap * 100, s[i].DesignCapacity)

C14_Holds(slot) ==
    Is(slot, "analyzeCapacityTrend")
        => LET q == Qualifying(ms, slot[1].at)
               rate == slot[1].val.DegradationRate
           IN  IF Enough(ms, slot[1].at) /\ rate[1] < 0
                  /\ RLess(Rat(80, 1), HealthPercent(ms, Highest(q)))
               THEN slot[1].val.ProjectedLifetime
                        = Trunc(RMul(RDiv(RSub(HealthPercent(ms, Highest(q)), Rat(80, 1)),
                                          RNeg(rate)),
                                     Rat(30, 1)))
               ELSE slot[1].val.ProjectedLifetime = 0

(* C14: the projection is ((health - 80) / (-monthlyPercent)) * 30,         *)
(* truncated, when the rate is negative and the health above 80 %, and 0    *)
(* in every other case.                                                     *)
C14_Projection == C14_Holds(out) /\ C14_Holds(prev)

(* a battery at exactly 80 % that still loses capacity: no projection       *)
C14_Witness ==
    /\ Is(out, "analyzeCapacityTrend") /\ Enough(ms, out[1].at)
    /\ out[1].val.DegradationRate[1] < 0
    /\ HealthPercent(ms, Highest(Qualifying(ms, out[1].at))) = Rat(80, 1)
    /\ out[1].val.ProjectedLifetime = 0

-----------------------------------------------------------------------------
C15_Holds(slot) ==
    Is(slot, "analyzeBatteryHealth") /\ ms # <<>>
        => LET val == slot[1].val
               base == FirstRow(ms[Len(ms)])
               unstable == val.anomaly_count > 5
               fast == /\ ~val.trend_analysis.IsHealthy
                       /\ RLess(val.trend_analysis.DegradationRate, Rat(-1, 1))
           IN  /\ val.anomaly_count = Len(val.anomalies)
               /\ val.trend_analysis = analyzeCapacityTrend(ms, slot[1].at)
               /\ val.health_score = base.score - 10 * One(unstable) - 15 * One(fast)
               /\ val.health_status
                     = <<base.status>> \o (IF unstable THEN <<"(unstable)">> ELSE <<>>)
                                       \o (IF fast THEN <<"(fast degradation)">> ELSE <<>>)

(* C15: the final score is the base score, minus 10 with the unstable       *)
(* suffix iff there are more than 5 anomalies, minus 15 with the            *)
(* fast-degradation suffix iff the trend is unhealthy with a rate below     *)
(* -1.0; both can apply.                                                    *)
C15_Adjustments == C15_Holds(out) /\ C15_Holds(prev)

(* more than 5 anomalies and a fast degradation: both adjustments, 25 off  *)
C15_Witness ==
    /\ Is(out, "analyzeBatteryHealth") /\ ms # <<>>
    /\ out[1].val.anomaly_count > 5
    /\ ~out[1].val.trend_analysis.IsHealthy
    /\ out[1].val.health_score = FirstRow(ms[Len(ms)]).score - 25
    /\ Len(out[1].val.health_status) = 3
    /\ out[1].val.health_status[2] = "(unstable)"
    /\ out[1].val.health_status[3] = "(fast degradation)"

(* The messages in their order, and the rule of each.                       *)
AdviceOrder ==
    << "replace", "power settings", "end of life", "high consumption", "high temperature",
       "raised temperature", "degradation", "full charge", "calibration" >>

(* wear % > limit, on the capacities                                        *)
WearAbove(m, limit) ==
    IF m.DesignCapacity = 0 THEN 0 > limit
    ELSE (m.DesignCapacity - m.FullChargeCap) * 100 > limit * m.DesignCapacity

Rule(text, latest, val, rate) ==
    CASE text = "replace" -> WearAbove(latest, 20)
      [] text = "power settings" -> val.anomaly_count > 3
      [] text = "end of life" -> latest.CycleCount > 1000
      [] text = "high consumption" -> RLess(Rat(1000, 1), rate)
      [] text = "high temperature" -> latest.Temperature > 40
      [] text = "raised temperature" -> latest.Temperature > 35 /\ ~(latest.Temperature > 40)
      [] text = "degradation" -> /\ ~val.trend_analysis.IsHealthy
                                 /\ RLess(val.trend_analysis.DegradationRate, Rat(-1, 2))
      [] text = "full charge" -> latest.State = "charging" /\ latest.Percentage = 100
      [] text = "calibration" -> WearAbove(latest, 15) /\ latest.CycleCount > 500

Has(list, text) == \E n \in 1..Len(list) : list[n] = text

Position(text) == CHOOSE k \in 1..Len(AdviceOrder) : AdviceOrder[k] = text

C16_Holds(slot) ==
    Is(slot, "analyzeBatteryHealth") /\ ms # <<>>
        => LET val == slot[1].val
               list == val.recommendations
               latest == ms[Len(ms)]
               rate == computeAvgRateRobust(ms, 10).rate
           IN  /\ val.discharge_rate = rate
               /\ \A n \in 1..Len(list) : Has(AdviceOrder, list[n])
               /\ \A n \in 1..Len(list), k \in 1..Len(list) :
                      n < k => Position(list[n]) < Position(list[k])
               /\ \A k \in 1..Len(AdviceOrder) :
                      Has(list, AdviceOrder[k]) <=> Rule(AdviceOrder[k], latest, val, rate)

(* C16: the recommendations are, in the fixed order, exactly the messages   *)
(* whose rule holds: wear > 20, anomalies > 3, cycles > 1000, robust rate   *)
(* > 1000, temperature > 40 or else > 35, unhealthy trend below -0.5,       *)
(* charging at 100 %, wear > 15 with cycles > 500.                          *)
C16_Recommendations == C16_Holds(out) /\ C16_Holds(prev)

(* a worn, hot battery under heavy load past 1000 cycles                    *)
C16_Witness ==
    /\ Is(out, "analyzeBatteryHealth") /\ ms # <<>>
    /\ out[1].val.recommendations
         = <<"replace", "end of life", "high consumption", "high temperature", "calibration">>

-----------------------------------------------------------------------------
(* the last n samples of s (all of them when s is shorter)                  *)
LastSamples(s, n) == IF Len(s) <= n THEN s ELSE SubSeq(s, Len(s) - n + 1, Len(s))

(* r = lost mAh / elapsed seconds, per hour; 0 when nothing was summed      *)
IsRate(r, lost, elapsed) ==
    IF elapsed = 0 THEN r = Zero
    ELSE r[2] > 0 /\ r[1] * elapsed = lost * Hour * r[2]

C17_Holds(slot) ==
    Is(slot, "computeAvgRate")
        => LET w == slot[1].args[1]
               I == NaivePairs(ms, w)
           IN  /\ slot[1].val = computeAvgRate(LastSamples(ms, w + 1), w)
               /\ IsRate(slot[1].val, SumLost(ms, I), SumElapsed(ms, I))
               /\ I = {} => slot[1].val = Zero

(* C17: computeAvgRate(ms, w) is a function of the last w + 1 samples: the  *)
(* capacity lost over the pairs whose capacity fell divided by the hours of *)
(* those pairs, 0 if there is none or no time elapsed.                      *)
C17_TrailingWindow == C17_Holds(out) /\ C17_Holds(prev)

(* four samples, the rate over all pairs and then over the last pair only:  *)
(* two different rates                                                      *)
C17_Witness ==
    /\ Len(ms) = 4 /\ AllParse(ms)
    /\ Is(prev, "computeAvgRate") /\ prev[1].args = <<10>>
    /\ Is(out, "computeAvgRate") /\ out[1].args = <<1>>
    /\ Lost(ms, 2) > 0 /\ Lost(ms, 1) <= 0
    /\ Positive(out[1].val) /\ Positive(prev[1].val)
    /\ out[1].val # prev[1].val

C18_Holds(slot) ==
    Is(slot, "computeAvgRateRobust")
        => LET I == RobustPairs(ms, slot[1].args[1])
           IN  /\ slot[1].val.validIntervals = Cardinality(I)
               /\ IsRate(slot[1].val.rate, SumLost(ms, I), SumElapsed(ms, I))

(* C18: a pair of the window is counted and summed by computeAvgRateRobust  *)
(* iff its charge delta is at most 20, its capacity delta at most 500, the  *)
(* capacity fell, both timestamps parse and 0 < elapsed <= 2 hours.         *)
C18_Filters == C18_Holds(out) /\ C18_Holds(prev)

(* a pair exactly on the three limits is counted, one of three hours is not *)
C18_Witness ==
    /\ Is(out, "computeAvgRateRobust") /\ Covers(out) /\ Len(ms) = 4
    /\ \E i \in Pairs(ms) :
           ChargeDelta(ms, i) = 20 /\ Lost(ms, i) = 500 /\ Elapsed(ms, i) = 2 * Hour
    /\ \E i \in Pairs(ms) : Elapsed(ms, i) > 2 * Hour /\ Lost(ms, i) > 0
    /\ out[1].val.validIntervals = 2

-----------------------------------------------------------------------------
(* the transitions the walk sees: the sample parses and its state differs   *)
(* from the state of the sample before it                                   *)
Detected(s) == { i \in Transitions(s) : ParseOk(At(s, i)) }

(* the k-th element of a set of indices, in ascending order                 *)
Nth(S, k) == CHOOSE i \in S : Cardinality({ j \in S : j < i }) = k - 1

LastParsed(s, from) ==
    CHOOSE i \in from..(Len(s) - 1) :
        /\ ParseOk(At(s, i))
        /\ \A j \in (i + 1)..(Len(s) - 1) : ~ParseOk(At(s, j))

EndsAt(cycle, s, i) ==
    /\ cycle.EndTime = ParseTime(At(s, i))
    /\ cycle.EndPercent = At(s, i).Percentage

C20_AsStated(slot) ==
    Is(slot, "detectChargeCycles") /\ Len(ms) >= 3 /\ AllParse(ms)
        => \A k \in 1..(Len(slot[1].val) - 1) :
               EndsAt(slot[1].val[k], ms, Nth(Transitions(ms), k + 1) - 1)

(* C20 as stated: a segment closed by a state transition ends at the last   *)
(* sample before the transition sample.                                     *)
C20_Original == C20_AsStated(out) /\ C20_AsStated(prev)

C20_Holds(slot) ==
    Is(slot, "detectChargeCycles") /\ Len(ms) >= 3
        => LET T == Detected(ms)
               cycles == slot[1].val
           IN  /\ Len(cycles) = Cardinality(T)
               /\ \A k \in 1..Len(cycles) :
                      /\ cycles[k].StartTime = ParseTime(At(ms, Nth(T, k)))
                      /\ cycles[k].StartPercent = At(ms, Nth(T, k)).Percentage
                      /\ IF k < Len(cycles)
                         THEN EndsAt(cycles[k], ms, Nth(T, k + 1))
                         ELSE EndsAt(cycles[k], ms, LastParsed(ms, Nth(T, k)))

(* C20 amended: every parseable sample updates the open segment's end, and  *)
(* the transition sample that closes a segment does so too: a closed        *)
(* segment ends at the time and percentage of the transition sample itself; *)
(* only the last, flushed segment ends at the last parseable sample.        *)
C20_ClosedAtTransition == C20_Holds(out) /\ C20_Holds(prev)

(* the example history: the charging segment opened at index 2 ends with    *)
(* the values of the transition sample at index 4, not those of index 3     *)
C20_Witness ==
    /\ Is(out, "detectChargeCycles") /\ AllParse(ms)
    /\ StatesOf(ms) = BoundaryExample
    /\ Len(out[1].val) = 2
    /\ EndsAt(out[1].val[1], ms, 4)
    /\ ~EndsAt(out[1].val[1], ms, 3)

-----------------------------------------------------------------------------
StartsAt(cycle, s, i) ==
    /\ cycle.StartPercent = At(s, i).Percentage
    /\ cycle.CycleType = ToLower(At(s, i).State)

C21_AsStated(slot) ==
    Is(slot, "detectChargeCycles") /\ Len(ms) >= 3
        => /\ \A i \in Transitions(ms) :
                  \E k \in 1..Len(slot[1].val) : StartsAt(slot[1].val[k], ms, i)
           /\ \A k \in 1..Len(slot[1].val) :
                  slot[1].val[k].StartPercent # At(ms, 0).Percentage

(* C21 as stated: with at least 3 samples, whatever their timestamps, every *)
(* index i >= 1 whose state differs from that of i - 1 starts a segment     *)
(* that is in the output, and index 0 starts none.                          *)
C21_Original == C21_AsStated(out) /\ C21_AsStated(prev)

(* the part of C21 the code keeps: the segments are those of the            *)
(* transitions whose sample has a parseable timestamp                       *)
C21_ParsedOnly ==
    \A slot \in {out, prev} :
        Is(slot, "detectChargeCycles") /\ Len(ms) >= 3
            => /\ Len(slot[1].val) = Cardinality(Detected(ms))
               /\ \A k \in 1..Len(slot[1].val) :
                      StartsAt(slot[1].val[k], ms, Nth(Detected(ms), k))

(* a state change on a sample whose timestamp does not parse: no segment    *)
C21_Lost ==
    /\ Is(out, "detectChargeCycles") /\ Len(ms) = 3
    /\ Transitions(ms) = {1} /\ ~ParseOk(At(ms, 1)) /\ ParseOk(At(ms, 2))
    /\ out[1].val = <<>>

LossAt(s, i) ==
    IF At(s, i - 1).CurrentCapacity > 0 /\ At(s, i).CurrentCapacity > 0
    THEN At(s, i - 1).CurrentCapacity - At(s, i).CurrentCapacity
    ELSE 0

C24_Holds(slot) ==
    Is(slot, "detectChargeCycles") /\ Len(ms) >= 3
        => LET T == Detected(ms)
               cycles == slot[1].val
           IN  \A k \in 1..Len(cycles) :
                   cycles[k].CapacityLoss =
                       IF k < Len(cycles) THEN LossAt(ms, Nth(T, k + 1)) ELSE 0

-----------------------------------------------------------------------------
C23_AsStated(slot) ==
    Is(slot, "normalizeAnomalyThresholds") /\ slot[1].args[1] <= 30
        => slot[1].val = [charge |-> BaseChargeThreshold,
                          capacity |-> BaseCapacityThreshold]

(* C23 as stated: normalizeAnomalyThresholds returns the base thresholds    *)
(* (20, 500) for an interval of 30 seconds, and for every shorter or        *)
(* negative interval.                                                       *)
C23_Original == C23_AsStated(out) /\ C23_AsStated(prev)

(* what the code returns for 30 seconds and less: (20, 250)                 *)
C23_HalfCapacity ==
    \A slot \in {out, prev} :
        Is(slot, "normalizeAnomalyThresholds") /\ slot[1].args[1] <= 30
            => slot[1].val = [charge |-> 20, capacity |-> 250]

(* the capacity threshold of 500 is that of one minute                      *)
C23_BaseAtOneMinute ==
    /\ Is(prev, "normalizeAnomalyThresholds") /\ prev[1].args = <<30>>
    /\ prev[1].val = [charge |-> 20, capacity |-> 250]
    /\ Is(out, "normalizeAnomalyThresholds") /\ out[1].args = <<60>>
    /\ out[1].val.capacity = 500

InThresholdRange(val) ==
    /\ val.charge \in 20..50
    /\ val.capacity \in 250..2000

(* C30: for every interval, zero and negative ones included, the charge     *)
(* threshold is within 20..50 and the capacity threshold within 250..2000,  *)
(* and of two intervals the longer one never has a lower threshold.         *)
C30_RangeAndMonotone ==
    /\ \A slot \in {out, prev} :
           Is(slot, "normalizeAnomalyThresholds") => InThresholdRange(slot[1].val)
    /\ Is(out, "normalizeAnomalyThresholds") /\ Is(prev, "normalizeAnomalyThresholds")
          => LET lo == IF prev[1].args[1] <= out[1].args[1] THEN prev[1] ELSE out[1]
                 hi == IF prev[1].args[1] <= out[1].args[1] THEN out[1] ELSE prev[1]
             IN  /\ lo.val.charge <= hi.val.charge
                 /\ lo.val.capacity <= hi.val.capacity

(* a negative interval at the lower ends, then four minutes at the upper    *)
(* ends of both ranges                                                      *)
C30_Witness ==
    /\ Is(prev, "normalizeAnomalyThresholds") /\ prev[1].args[1] < 0
    /\ prev[1].val = [charge |-> 20, capacity |-> 250]
    /\ Is(out, "normalizeAnomalyThresholds") /\ out[1].args = <<4 * Minute>>
    /\ out[1].val = [charge |-> 50, capacity |-> 2000]

-----------------------------------------------------------------------------
C29_Holds(slot) ==
    Is(slot, "computeAvgRateRobust")
        => LET w == slot[1].args[1]
               val == slot[1].val
           IN  /\ Finite(val.rate) /\ val.rate[1] >= 0
               /\ val.validIntervals >= 0
               /\ val.validIntervals <= w
               /\ Len(ms) >= 1 => val.validIntervals <= Len(ms) - 1
               /\ Len(ms) = 0 => val.validIntervals = 0
               /\ Positive(val.rate) <=> val.validIntervals > 0

(* C29: for any history, in any order of time, and any window >= 0,         *)
(* computeAvgRateRobust returns a rate >= 0 and a count between 0 and       *)
(* min(window, len - 1), and the rate is positive iff the count is.         *)
C29_RobustBounds == C29_Holds(out) /\ C29_Holds(prev)

(* a history that steps back in time: the window of 2 counts the one pair   *)
(* that moves forward, the window of 0 counts none                          *)
C29_Witness ==
    /\ Len(ms) = 3 /\ AllParse(ms)
    /\ \E i \in Pairs(ms) : Elapsed(ms, i) < 0 /\ Lost(ms, i) > 0
    /\ Is(prev, "computeAvgRateRobust") /\ prev[1].args = <<0>>
    /\ prev[1].val = [rate |-> Zero, validIntervals |-> 0]
    /\ Is(out, "computeAvgRateRobust") /\ out[1].args = <<2>>
    /\ out[1].val.validIntervals = 1 /\ Positive(out[1].val.rate)

-----------------------------------------------------------------------------
C22_AsStated(slot) ==
    /\ Is(slot, "analyzeAdvancedMetrics") => slot[1].val.HealthRating \in 0..100
    /\ Is(slot, "analyzeBatteryHealth") /\ ~slot[1].val.nil /\ ~slot[1].val.panic
          => slot[1].val.health_score \in 0..100

(* C22 as stated: the health_score of analyzeBatteryHealth and the          *)
(* HealthRating of analyzeAdvancedMetrics lie in 0..100 for any input.      *)
C22_Original == C22_AsStated(out) /\ C22_AsStated(prev)

(* what holds: health_score is within 5..95 and HealthRating is never       *)
(* negative                                                                 *)
C22_LowerBounds ==
    \A slot \in {out, prev} :
        /\ Is(slot, "analyzeAdvancedMetrics") => slot[1].val.HealthRating >= 0
        /\ Is(slot, "analyzeBatteryHealth") /\ ~slot[1].val.nil /\ ~slot[1].val.panic
              => slot[1].val.health_score \in 5..95

(* a new battery that holds 5300 of its 5000 mAh, at a steady 12 V: 103     *)
C22_Above100 ==
    /\ Len(ms) = 2
    /\ \A i \in 1..2 : ms[i].Voltage = 12000
    /\ ms[2].DesignCapacity = 5000 /\ ms[2].FullChargeCap = 5300
    /\ Is(out, "analyzeAdvancedMetrics")
    /\ out[1].val.HealthRating = 103

-----------------------------------------------------------------------------
C26_Reads(slot) ==
    /\ Is(slot, "Size") => slot[1].val = Size(buffer) /\ slot[1].val <= buffer.maxSize
    /\ Is(slot, "GetLatest") /\ added # <<>> => slot[1].val = <<added[Len(added)]>>
    /\ Is(slot, "GetLatest") /\ added = <<>> => slot[1].val = <<>>
    /\ Is(slot, "GetLast")
          => slot[1].val = LastSamples(added, Min(slot[1].args[1], Size(buffer)))

C26_State ==
    /\ Size(buffer) <= buffer.maxSize
    /\ added # <<>> => Size(buffer) >= 1
    /\ buffer.measurements = LastSamples(added, Size(buffer))
    /\ C26_Reads(out) /\ C26_Reads(prev)

C26_Trim ==
    added' # added
        => Size(buffer') = IF Size(buffer) = buffer.maxSize
                           THEN buffer.maxSize - buffer.maxSize \div 4
                           ELSE Size(buffer) + 1

-----------------------------------------------------------------------------
Chronological(s) ==
    \A i \in 1..Len(s) : \A j \in i..Len(s) : ParseTime(s[i]) <= ParseTime(s[j])

(* C25 as stated: under every interleaving of the CollectAndStore           *)
(* goroutines the buffer stays in non-decreasing timestamp order, and so    *)
(* does what GetLast returns.                                               *)
C25_Original ==
    /\ Chronological(buffer.measurements)
    /\ \A slot \in {out, prev} : Is(slot, "GetLast") => Chronological(slot[1].val)

(* the goroutine of the first tick adds its sample after the goroutine of   *)
(* the second tick has added its own: GetLast returns them newest first     *)
C25_Overtaken ==
    /\ Len(added) = 2
    /\ ParseTime(added[1]) = 2 * ServiceInterval
    /\ ParseTime(added[2]) = ServiceInterval
    /\ Is(out, "GetLast") /\ out[1].val = added

(* what holds: each goroutine adds the sample it stamped, at or after the   *)
(* time of its stamp, and the buffer is what was added                      *)
C25_StampedBeforeAdded ==
    /\ \A i \in 1..Len(added) : ParseTime(added[i]) <= now
    /\ buffer.measurements = LastSamples(added, Size(buffer))
    /\ \A g \in flight : g.pc # "pmset" => ParseTime(g.m) <= now

-----------------------------------------------------------------------------
Newest(s) == s[Len(s)]

FullyCharged(m) == ToLower(m.State) = "charging" /\ m.Percentage >= 100

Discharging(m) == ToLower(m.State) = "discharging"

(* the interval a successful collection leaves behind                       *)
IntervalAfter(m, before) ==
    IF FullyCharged(m) THEN 5 * Minute
    ELSE IF Discharging(m) THEN 30
    ELSE before

(* a collection of the loop: the tick was taken *)
Ticked == ticker.pc = "select" /\ ticker'.pc = "select" /\ ticker'.fired # ticker.fired

Collected == added' # added

C28_EveryCollection ==
    /\ Collected /\ ticker.pc = "first" /\ FullyCharged(Newest(added'))
          => ticker'.interval = 5 * Minute
    /\ Collected /\ Ticked => ticker'.interval = IntervalAfter(Newest(added'), ticker.interval)
    /\ ~Collected /\ Ticked => ticker'.interval = ticker.interval

C28_DischargingNext ==
    ticker.pc = "select" /\ added # <<>> /\ Discharging(Newest(added))
        => ticker.interval = 30 /\ ticker.next = now + 30

C28_Ends == ctxDone ~> (ticker.pc = "returned")

(* C28 as stated: after each successful collection the interval is 5        *)
(* minutes for a charging sample at >= 100 %, 30 seconds for a discharging  *)
(* one, unchanged otherwise and after a failure; after a discharging sample *)
(* the next one is due 30 seconds later; the loop ends once the context is  *)
(* cancelled.                                                               *)
C28_Original == [][C28_EveryCollection]_vars /\ []C28_DischargingNext /\ C28_Ends

C28_LoopCollection ==
    /\ Collected /\ Ticked => ticker'.interval = IntervalAfter(Newest(added'), ticker.interval)
    /\ ~Collected /\ Ticked => ticker'.interval = ticker.interval
    /\ ticker.pc = "first" /\ ticker'.pc = "select"
          => ticker'.interval = 30 /\ ticker'.next = now + 30

(* C28 amended: the adaptation follows the collections of the loop only;    *)
(* the first measurement, taken before the ticker is made, leaves the       *)
(* interval at 30 seconds whatever its sample.  The rest is as stated.      *)
C28_Schedule == [][C28_LoopCollection]_vars /\ []C28_DischargingNext /\ C28_Ends

(* slowed down to 5 minutes by a fully charged sample of the loop, then     *)
(* back to 30 seconds by a discharging one, then cancelled and returned     *)
C28_Witness ==
    /\ Len(added) = 3
    /\ FullyCharged(added[2]) /\ ParseTime(added[3]) - ParseTime(added[2]) = 5 * Minute
    /\ Discharging(added[3])
    /\ ticker.interval = 30 /\ ticker.next = now + 30
    /\ ctxDone /\ ticker.pc = "returned"

(* the first measurement finds the battery fully charged: the ticker starts *)
(* at 30 seconds all the same                                               *)
C28_FirstNotAdapted ==
    /\ Len(added) = 1 /\ FullyCharged(added[1])
    /\ ticker.pc = "select" /\ ticker.fired = 0
    /\ ticker.interval = 30

-----------------------------------------------------------------------------
LastKey == keys[Len(keys)]

Pressed(k) == keys' = Append(keys, [key |-> k, on |-> app.state])

C27_QPress ==
    \A k \in QuitKeys :
        Pressed(k)
            => IF app.state \in {"StateWelcome", "StateMenu"}
               THEN app'.quit /\ ctxDone'
               ELSE /\ app'.state = "StateMenu"
                    /\ ~app'.quit
                    /\ ctxDone' = ctxDone

C27_State ==
    /\ app.state \in AppStates
    /\ app.quit => ctxDone
    /\ Len(keys) >= 1 /\ LastKey.key \in QuitKeys
          => app.quit \/ app.state = "StateMenu"
    /\ Len(keys) >= 2 /\ LastKey.key \in QuitKeys /\ keys[Len(keys) - 1].key \in QuitKeys
          => app.quit

=============================================================================
